----------------------------- MODULE ScriptHost -----------------------------
(***************************************************************************)
(* One script in its Nushell host: the sandboxed process and the helpers   *)
(* it starts, the runtime's waiter on the process (kraai-sandbox), the     *)
(* channel that serves the host's calls, and `execute`, which joins the    *)
(* two into the execution's outcome (kraai-nushell-runtime).  A helper in  *)
(* the process group dies with the group; an escaped one (a daemon with a  *)
(* session of its own) does not, and keeps the output pipes open; a quiet  *)
(* one has redirected its output and holds no pipe.                        *)
(*                                                                         *)
(* Output is counted in chunks (the text that replaces markers is the      *)
(* subject of HostOutput); killing a process group never fails here.       *)
(***************************************************************************)
EXTENDS Naturals, FiniteSets

CONSTANTS MaxChunks, \* bound on the chunks of output written
          MaxCalls   \* bound on the calls the host makes

Helpers == {"grouped", "quiet", "escaped"}
InGroup == {"grouped", "quiet"}

VARIABLES leader,      \* the host process: "starting", "live" (connected) or "gone"
          helpers,     \* the live processes it started
          started,     \* the kinds of helper it has started so far
          written,     \* chunks written to the output pipes
          captured,    \* chunks the readers took
          waiter,      \* kraai_sandbox::run: "racing", "collecting", "finishing", "returned"
          termination, \* what it will report
          channel,     \* the channel task: "accepting", "serving", "answering", "ended", "failed"
          calls,       \* calls made
          commit,      \* the detached task that commits a state effect: "none" or "pending"
          clock,       \* the script's time limit: "unset", "running", "over"
          cancelled,   \* the execution's cancellation
          hostStop,    \* the child token that `execute` gives to the waiter
          exec,        \* execute: "racing", "joining", "draining", "awaiting" or "returned"
          outcome,     \* what the execution record will say
          settled      \* a waiter for the session's tasks has gone on

vars == <<leader, helpers, started, written, captured, waiter, termination, channel, calls,
          commit, clock, cancelled, hostStop, exec, outcome, settled>>

processVars == <<leader, helpers, started, written, captured>>
waiterVars  == <<waiter, termination>>
channelVars == <<channel, calls, commit>>
execVars    == <<exec, outcome, settled>>
signals     == <<clock, cancelled, hostStop>>

Init == /\ leader = "starting" /\ helpers = {} /\ started = {}
        /\ written = 0 /\ captured = 0
        /\ waiter = "racing" /\ termination = "none"
        /\ channel = "accepting" /\ calls = 0 /\ commit = "none"
        /\ clock = "unset" /\ cancelled = FALSE /\ hostStop = FALSE
        /\ exec = "racing" /\ outcome = "none" /\ settled = FALSE

-----------------------------------------------------------------------------
\* The processes.

PipesHeld == leader # "gone" \/ helpers \ {"quiet"} # {}   \* someone holds the output pipes

\* The host connects and is sent its request: the limit starts to run.
Connect == /\ leader = "starting" /\ channel = "accepting"
           /\ leader' = "live" /\ channel' = "serving" /\ clock' = "running"
           /\ UNCHANGED <<helpers, started, written, captured, calls, commit, cancelled,
                          hostStop, waiterVars, execVars>>

StartHelper(kind) ==
  /\ leader = "live" /\ kind \notin started
  /\ helpers' = helpers \cup {kind} /\ started' = started \cup {kind}
  /\ UNCHANGED <<leader, written, captured, waiterVars, channelVars, execVars, signals>>

Write == /\ PipesHeld /\ written < MaxChunks
         /\ written' = written + 1
         /\ UNCHANGED <<leader, helpers, started, captured, waiterVars, channelVars, execVars,
                        signals>>

HostExits == /\ leader # "gone" /\ leader' = "gone"
             /\ UNCHANGED <<helpers, started, written, captured, waiterVars, channelVars,
                            execVars, signals>>

HelperExits(kind) ==
  /\ kind \in helpers /\ helpers' = helpers \ {kind}
  /\ UNCHANGED <<leader, started, written, captured, waiterVars, channelVars, execVars, signals>>

-----------------------------------------------------------------------------
\* kraai_sandbox::run.

\* SIGKILL to the process group: the host and what it started, but not a
\* process that has left the group.
GroupKilled == /\ leader' = "gone" /\ helpers' = helpers \ InGroup
               /\ UNCHANGED <<started, written, captured>>
LeftAlone == UNCHANGED processVars

\* What happens to the group when the host exits by itself: it is killed too.
AtExitNothing == LeftAlone
AtExit == GroupKilled

\* Both readers met the end of their pipe.
Collected == captured = written /\ ~PipesHeld

Read == /\ captured < written /\ waiter # "returned"
        /\ captured' = captured + 1
        /\ UNCHANGED <<leader, helpers, started, written, waiterVars, channelVars, execVars,
                       signals>>

WaiterSeesExit ==
  /\ waiter = "racing" /\ leader = "gone"
  /\ AtExit
  /\ waiter' = "collecting" /\ termination' = "exited"
  /\ UNCHANGED <<channelVars, execVars, signals>>

\* The deadline or the cancellation, while the host runs or while the output
\* of a host that exited is still being read.
Stopped(why) == IF why = "timed_out" THEN clock = "over" ELSE cancelled \/ hostStop
WaiterStops(why) ==
  /\ waiter \in {"racing", "collecting"} /\ Stopped(why)
  /\ GroupKilled
  /\ waiter' = "finishing" /\ termination' = why
  /\ UNCHANGED <<channelVars, execVars, signals>>

\* The output is complete, or the readers are stopped 100 ms after a kill.
MayReturnCollected == Collected /\ waiter \in {"collecting", "finishing"}
MayReturnAtExit == waiter \in {"collecting", "finishing"}
MayReturn == \/ Collected /\ waiter = "collecting"
             \/ waiter = "finishing"

WaiterReturns ==
  /\ MayReturn
  /\ waiter' = "returned"
  /\ UNCHANGED <<processVars, termination, channelVars, execVars, signals>>

-----------------------------------------------------------------------------
\* The channel task.

ChannelDone == channel \in {"ended", "failed"}
Aborted == "ended"

\* No greeting within the startup timeout, or a broken one.
AcceptFails == /\ channel = "accepting" /\ channel' = "failed"
               /\ UNCHANGED <<processVars, waiterVars, calls, commit, execVars, signals>>

\* A call arrives; one that changes context state is committed by a task of
\* its own, which holds a token of the session.
HostCalls(effect) ==
  /\ channel = "serving" /\ leader = "live" /\ calls < MaxCalls
  /\ calls' = calls + 1 /\ channel' = "answering"
  /\ commit' = IF effect /\ commit = "none" THEN "pending" ELSE commit
  /\ UNCHANGED <<processVars, waiterVars, execVars, signals>>

CommitEnds == /\ commit = "pending" /\ commit' = "none"
              /\ UNCHANGED <<processVars, waiterVars, channel, calls, execVars, signals>>

\* The answer to a host that is gone breaks the channel.
AnswerCall == /\ channel = "answering" /\ commit = "none"
              /\ channel' = IF leader = "gone" THEN "failed" ELSE "serving"
              /\ UNCHANGED <<processVars, waiterVars, calls, commit, execVars, signals>>

\* The host's end closes when the host is gone; a frame may also be broken.
ChannelEnds == /\ channel = "serving" /\ leader = "gone" /\ channel' = "ended"
               /\ UNCHANGED <<processVars, waiterVars, calls, commit, execVars, signals>>
ChannelBreaks == /\ channel = "serving" /\ leader = "live" /\ channel' = "failed"
                 /\ UNCHANGED <<processVars, waiterVars, calls, commit, execVars, signals>>

-----------------------------------------------------------------------------
\* execute.

\* The channel is polled first; its failure stops the host.
ChannelFirst == /\ exec = "racing" /\ ChannelDone
                /\ exec' = "joining"
                /\ hostStop' = (hostStop \/ channel = "failed")
                /\ UNCHANGED <<processVars, waiterVars, channelVars, outcome, settled, clock,
                               cancelled>>

\* The process first.  A host that exited without connecting never will; one
\* that was stopped leaves the channel up to 500 ms; one that exited leaves
\* its channel as long as the time limit allows.
ProcessFirst ==
  /\ exec = "racing" /\ ~ChannelDone /\ waiter = "returned"
  /\ exec' = CASE termination # "exited"  -> "draining"
               [] channel = "accepting"   -> "joining"
               [] OTHER                   -> "awaiting"
  /\ channel' = IF termination = "exited" /\ channel = "accepting" THEN "failed" ELSE channel
  /\ UNCHANGED <<processVars, waiterVars, calls, commit, outcome, settled, signals>>

ChannelAwaited ==
  /\ exec = "awaiting" /\ exec' = IF cancelled THEN "draining" ELSE "joining"
  /\ cancelled \/ ChannelDone
  /\ UNCHANGED <<processVars, waiterVars, channelVars, outcome, settled, signals>>

AwaitTimesOut ==
  /\ exec = "awaiting" /\ ~cancelled /\ ~ChannelDone /\ clock = "over"
  /\ channel' = Aborted /\ termination' = "timed_out" /\ exec' = "joining"
  /\ UNCHANGED <<processVars, waiter, calls, commit, outcome, settled, signals>>

\* A stopped channel gives up the call it is answering, or is aborted; its
\* failure no longer counts.
Drained == /\ exec = "draining"
           /\ channel' = Aborted
           /\ exec' = "joining"
           /\ UNCHANGED <<processVars, waiterVars, calls, commit, outcome, settled, signals>>

\* The order in which the reasons are considered.
VerdictByProcess == IF channel = "failed" /\ termination = "exited" THEN "failed"
                    ELSE termination
Verdict == CASE cancelled                  -> "cancelled"
             [] termination = "timed_out"  -> "timed_out"
             [] channel = "failed"         -> "failed"
             [] OTHER                      -> termination

ExecuteReturns ==
  /\ exec = "joining" /\ waiter = "returned" /\ ChannelDone
  /\ exec' = "returned" /\ outcome' = Verdict
  /\ UNCHANGED <<processVars, waiterVars, channelVars, settled, signals>>

\* The task of the execution and the commit it may have left behind hold the
\* session's tokens; whoever waits for the session goes on without them.
TaskTokenFree == exec = "returned"
TokensFree == exec = "returned" /\ commit = "none"
Settle == /\ ~settled /\ TokensFree
          /\ settled' = TRUE
          /\ UNCHANGED <<processVars, waiterVars, channelVars, exec, outcome, signals>>

Cancel == /\ ~cancelled /\ exec # "returned"
          /\ cancelled' = TRUE /\ hostStop' = TRUE
          /\ UNCHANGED <<processVars, waiterVars, channelVars, execVars, clock>>

LimitPasses == /\ clock = "running" /\ clock' = "over"
               /\ UNCHANGED <<processVars, waiterVars, channelVars, execVars, cancelled,
                              hostStop>>

RuntimeSteps ==
  \/ Read \/ WaiterSeesExit \/ (\E why \in {"timed_out", "cancelled"} : WaiterStops(why))
  \/ WaiterReturns \/ CommitEnds \/ ChannelEnds
  \/ ChannelFirst \/ ProcessFirst \/ ChannelAwaited \/ AwaitTimesOut \/ Drained
  \/ ExecuteReturns

Next == \/ Connect \/ Write \/ HostExits \/ AcceptFails \/ AnswerCall \/ ChannelBreaks
        \/ (\E kind \in Helpers : StartHelper(kind) \/ HelperExits(kind))
        \/ (\E effect \in BOOLEAN : HostCalls(effect))
        \/ RuntimeSteps \/ Settle \/ Cancel \/ LimitPasses

Spec == Init /\ [][Next]_vars

-----------------------------------------------------------------------------
HostTypeOK ==
  /\ leader \in {"starting", "live", "gone"} /\ helpers \subseteq started
  /\ started \subseteq Helpers /\ captured \in 0..written /\ written \in 0..MaxChunks
  /\ waiter \in {"racing", "collecting", "finishing", "returned"}
  /\ termination \in {"none", "exited", "timed_out", "cancelled"}
  /\ channel \in {"accepting", "serving", "answering", "ended", "failed"}
  /\ calls \in 0..MaxCalls /\ commit \in {"none", "pending"}
  /\ clock \in {"unset", "running", "over"} /\ {cancelled, hostStop, settled} \subseteq BOOLEAN
  /\ exec \in {"racing", "joining", "draining", "awaiting", "returned"}
  /\ outcome \in {"none", "exited", "timed_out", "cancelled", "failed"}

\* Once an execution has an outcome, neither the host nor a process it
\* started in its group is left running (spawn_and_wait), however the exit,
\* the time limit and the cancellation met.
NothingLeftRunning == exec = "returned" => leader = "gone" /\ helpers \cap InGroup = {}

\* A completed script's output is the whole output of the script and of
\* everything it started; "cancelled" and "timed out" are said only of
\* executions that were, and a cancelled one is never said to be complete.
OutcomeTrue ==
  exec = "returned" => /\ outcome = "exited" => Collected
                       /\ outcome = "cancelled" <=> cancelled
                       /\ outcome = "timed_out" => clock = "over"

\* When a waiter for the session's tasks goes on (a cancelled turn that is
\* being closed), no state effect of its script can still be committed.
EffectsSettled == settled => commit = "none"

\* The time limit, a cancellation or a host that never connects ends the
\* execution by steps of the runtime alone, even when a process that left the
\* group keeps the pipes open: until there is an outcome one of them is
\* possible, and each takes the execution further.
NeverStuck == (clock = "over" \/ cancelled \/ channel = "failed") /\ exec # "returned"
                 => ENABLED RuntimeSteps
=============================================================================
