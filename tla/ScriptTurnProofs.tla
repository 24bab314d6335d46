-------------------------- MODULE ScriptTurnProofs --------------------------
(***************************************************************************)
(* Proofs about ScriptTurn: scripts start once and before their answer,    *)
(* what is delivered is what was recorded, and every recorded call is      *)
(* answered once and in its place.                                         *)
(*                                                                         *)
(* The argument.  A response is settled when its execution is finished, or *)
(* when it has none and no process is about to create one.  No step        *)
(* unsettles a response or changes the record of a settled one             *)
(* (SettledKept), and every result in the history stems from a settled     *)
(* response (ResultsInv).  So mark_running, which needs an open record,    *)
(* never finds a result, and a first result keeps agreeing with its        *)
(* record.  What is left is to show of each operation on the history that  *)
(* the results it adds stem from results that are there (Carried), or that *)
(* it appends the first result of a settled response (AppendedKept); both  *)
(* need to know where the first result of a response stands (OrderInv),    *)
(* what the stage of each actor says about its response (StageInv), that   *)
(* no two actors hold one response (OneHolder), and that what a recovery   *)
(* read stays true while it goes on (RecInv).                              *)
(*                                                                         *)
(* The second half is about the answers of all calls (AnswerInv): as long  *)
(* as no process went on under a lease it had lost, the history is tidy    *)
(* (Tidy): every result stands in the block behind its response, in the    *)
(* order of the calls, and a response that has begun to be answered is     *)
(* answered completely or is the tip.  The operations on the history keep  *)
(* that if the response they answer is the tip, which follows from what    *)
(* the stage of the process that owns the session says about it (HeldOK):  *)
(* until its result is linked it is the tip, and a process that rests has  *)
(* missed no result of a recorded response.                                *)
(***************************************************************************)
EXTENDS ScriptTurn, FiniteSetTheorems, SequenceTheorems, WellFoundedInduction, TLAPS

-----------------------------------------------------------------------------
(* Sets of numbers, and their members in order. *)

\* A set of numbers has a least member.
LEMMA LeastOne == ASSUME NEW S, S \subseteq Nat, S # {} PROVE \E n \in S : \A k \in S : n <= k
<1>1. \E n \in S : \A k \in S : ~ (<<k, n>> \in OpToRel(<, Nat))
  BY WFMin, NatLessThanWellFounded
<1>2. ASSUME NEW n \in Nat, NEW k \in Nat, k < n PROVE <<k, n>> \in OpToRel(<, Nat)
  BY <1>2, Zenon DEF OpToRel
<1>3. PICK n \in S : \A k \in S : ~ (<<k, n>> \in OpToRel(<, Nat))
  BY <1>1
<1>4. \A k \in S : ~ (k < n)
  BY <1>2, <1>3, Zenon
<1>5. QED BY <1>4

\* A bounded set of numbers has a greatest member.
LEMMA GreatestOne ==
    ASSUME NEW S, S \subseteq Nat, S # {}, NEW b \in Nat, \A n \in S : n <= b
    PROVE  \E n \in S : \A k \in S : k <= n
<1> DEFINE T == {b - n : n \in S}
<1>1. T \subseteq Nat /\ T # {}
  <2>1. \A n \in S : b - n \in Nat
    OBVIOUS
  <2>2. QED BY <2>1
<1>2. PICK t \in T : \A k \in T : t <= k
  BY <1>1, LeastOne
<1>3. PICK n \in S : t = b - n
  OBVIOUS
<1>4. \A k \in S : b - n <= b - k
  BY <1>2, <1>3
<1>5. \A k \in S : k <= n
  BY <1>4
<1>6. QED BY <1>5

\* A set of numbers up to b is finite.
LEMMA FiniteUpTo ==
    ASSUME NEW b \in Nat, NEW S \in SUBSET (1..b)
    PROVE  IsFiniteSet(S) /\ Cardinality(S) \in Nat
<1>1. 1 \in Int /\ b \in Int
  OBVIOUS
<1>2. IsFiniteSet(1..b)
  BY <1>1, FS_Interval, Zenon
<1>3. IsFiniteSet(S)
  BY <1>2, FS_Subset, Zenon
<1>4. QED BY <1>3, FS_CardinalityType, Zenon

\* Every set of numbers up to b can be listed in increasing order.
Listing(S, s) ==
    s \in [1..Cardinality(S) -> S] /\ \A i, j \in 1..Cardinality(S) : i < j => s[i] < s[j]

\* Every set of numbers up to b has a listing.
LEMMA ListingOf ==
    ASSUME NEW b \in Nat, NEW S \in SUBSET (1..b)
    PROVE  \E s : Listing(S, s)
<1> DEFINE Bad == {n \in Nat : \E T \in SUBSET (1..b) : Cardinality(T) = n /\ ~ \E s : Listing(T, s)}
<1>1. \A T \in SUBSET (1..b) : IsFiniteSet(T) /\ Cardinality(T) \in Nat
  BY FiniteUpTo, Zenon
<1>2. SUFFICES ASSUME Bad # {} PROVE FALSE
  BY <1>1
<1>3. PICK n \in Bad : \A k \in Bad : n <= k
  BY <1>2, LeastOne
<1>4. PICK T \in SUBSET (1..b) : Cardinality(T) = n /\ ~ \E s : Listing(T, s)
  BY <1>3
<1>5. CASE T = {}
  <2>1. Cardinality(T) = 0
    BY <1>5, FS_EmptySet
  <2>2. 1..Cardinality(T) = {}
    BY <2>1
  <2>3. [i \in {} |-> 1] \in [{} -> T]
    OBVIOUS
  <2>4. Listing(T, [i \in {} |-> 1])
    BY <2>2, <2>3, Zenon DEF Listing
  <2>5. QED BY <1>4, <2>4
<1>6. CASE T # {}
  <2>1. PICK m \in T : \A k \in T : k <= m
    <3>1. T \subseteq Nat /\ \A k \in T : k <= b
      OBVIOUS
    <3>2. QED BY <1>6, <3>1, GreatestOne, Zenon
  <2> DEFINE R == T \ {m}
  <2>2. R \in SUBSET (1..b) /\ Cardinality(R) = n - 1
    <3>1. IsFiniteSet(T)
      BY <1>1
    <3>2. Cardinality(T \ {m}) = IF m \in T THEN Cardinality(T) - 1 ELSE Cardinality(T)
      BY <3>1, FS_RemoveElement, Zenon
    <3>3. QED BY <1>4, <2>1, <3>2
  <2>3. n - 1 \in Nat /\ n \in Nat
    BY <1>1, <2>2
  <2>4. n - 1 \notin Bad
    BY <1>3, <2>3
  <2>5. PICK s : Listing(R, s)
    BY <2>2, <2>3, <2>4
  <2> DEFINE t == [i \in 1..n |-> IF i = n THEN m ELSE s[i]]
  <2>6. \A i \in 1..n-1 : s[i] \in R
    BY <2>2, <2>5 DEF Listing
  <2>7. t \in [1..n -> T]
    BY <2>3, <2>6
  <2>8. ASSUME NEW i \in 1..n, NEW j \in 1..n, i < j PROVE t[i] < t[j]
    <3>1. i \in 1..n-1 /\ s[i] \in R /\ t[i] = s[i]
      BY <2>3, <2>6, <2>8
    <3>2. CASE j = n
      <4>1. s[i] \in 1..b /\ s[i] <= m /\ s[i] # m /\ m \in 1..b
        BY <2>1, <3>1
      <4>2. QED BY <3>1, <3>2, <4>1
    <3>3. CASE j # n
      <4>1. j \in 1..n-1
        BY <2>3, <3>3
      <4>2. s[i] < s[j]
        BY <2>2, <2>5, <2>8, <3>1, <4>1 DEF Listing
      <4>3. QED BY <3>1, <3>3, <4>2
    <3>4. QED BY <3>2, <3>3
  <2>9. Listing(T, t)
    BY <1>4, <2>7, <2>8 DEF Listing
  <2>10. QED BY <1>4, <2>9
<1>7. QED BY <1>5, <1>6

\* Ordered lists members of its set.
LEMMA OrderedMembers ==
    ASSUME NEW b \in Nat, NEW S \in SUBSET (1..b)
    PROVE  Cardinality(S) \in Nat /\ \A n \in 1..Cardinality(S) : Ordered(S)[n] \in S
<1>1. Cardinality(S) \in Nat
  BY FiniteUpTo, Zenon
<1>2. \E s \in [1..Cardinality(S) -> S] : \A i, j \in 1..Cardinality(S) : i < j => s[i] < s[j]
  <2>1. PICK s : Listing(S, s)
    BY ListingOf, Zenon
  <2>2. QED BY <2>1, Zenon DEF Listing
<1>3. Ordered(S) \in [1..Cardinality(S) -> S]
  BY <1>2, Zenon DEF Ordered
<1>4. QED BY <1>1, <1>3

-----------------------------------------------------------------------------
(* What the operations on the history do to its results. *)

\* Items of the right shape, in which a response names a response.
Sound(h) == h \in Seq(Items) /\ \A i \in DOMAIN h : h[i].kind = "response" => h[i].of \in Responses

\* A result is delivered for its own response, or stands for a call that was skipped there.
Own(x) == x.kind = "result" /\ x.of = x.via
First(x) == Own(x) /\ x.call = 1

\* x follows from a result of h, and answers another call if it belongs to the same response.
Derived(h, x) ==
    /\ x.kind = "result"
    /\ \E p \in DOMAIN h : h[p].kind = "result" /\ x.via = h[p].via
    /\ Own(x) => x.call # 1 /\ \E j \in DOMAIN h : First(h[j]) /\ h[j].of = x.of

\* g has the results of h where they were, and beyond h only results that follow from those.
Carried(h, g) ==
    /\ \A i \in DOMAIN h : h[i].kind = "result" => i \in DOMAIN g
    /\ \A i \in DOMAIN g \cap DOMAIN h :
          g[i].kind = h[i].kind /\ g[i].of = h[i].of /\ (h[i].kind = "result" => g[i] = h[i])
    /\ \A i \in DOMAIN g \ DOMAIN h : Derived(h, g[i])

\* The first result of a response comes behind it and before its other results.
InOrder(h) ==
    \A i \in DOMAIN h : Own(h[i]) =>
        /\ h[i].call # 1 => \E j \in 1..i - 1 : First(h[j]) /\ h[j].of = h[i].of
        /\ \A k \in DOMAIN h : IsResponse(h, k, h[i].of) => k < i
OrderInv == InOrder(history)

\* The bounds are numbers.
LEMMA ResponsesType == MaxResponses \in Nat /\ MaxCalls \in Nat /\ Responses = 1..MaxResponses
BY ScriptTurnAssumption DEF Responses

\* ParentOfResults is the last message before p that is no result.
LEMMA ParentFacts ==
    ASSUME NEW h \in Seq(Items), NEW p \in DOMAIN h
    PROVE  LET a == ParentOfResults(h, p)
           IN  /\ a \in 0..p - 1
               /\ a # 0 => h[a].kind # "result"
               /\ \A i \in a + 1..p - 1 : h[i].kind = "result"
<1> DEFINE S == {0} \cup {i \in 1..p - 1 : h[i].kind # "result"}
           a == ParentOfResults(h, p)
<1>1. p \in Nat /\ S \subseteq Nat /\ S # {} /\ \A i \in S : i <= p
  OBVIOUS
<1>2. \E n \in S : \A k \in S : n >= k
  <2>1. \E n \in S : \A k \in S : k <= n
    BY <1>1, GreatestOne, Zenon
  <2>2. QED BY <1>1, <2>1
<1>3. a \in S /\ \A k \in S : a >= k
  BY <1>2, Zenon DEF ParentOfResults, Max
<1> HIDE DEF a
<1>4. a \in 0..p - 1 /\ (a # 0 => h[a].kind # "result")
  BY <1>1, <1>3
<1>5. ASSUME NEW i \in a + 1..p - 1 PROVE h[i].kind = "result"
  BY <1>1, <1>3, <1>4, <1>5
<1>6. QED BY <1>4, <1>5 DEF a

\* A result is an item of the history with the fields it was made of.
LEMMA ResultItem ==
    ASSUME NEW m \in 0..MaxResponses, NEW c \in 0..MaxCalls, NEW v \in 0..MaxResponses, NEW s \in Statuses
    PROVE  LET x == Result(m, c, v, s)
           IN  x \in Items /\ x.kind = "result" /\ x.of = m /\ x.call = c /\ x.via = v /\ x.how = s
BY DEF Result, Items

\* answer_skipped_calls only appends results, of one response and on behalf of one result.
LEMMA SkippedAnswered ==
    ASSUME NEW h, Sound(h), calls \in [Responses -> 0..MaxCalls], NEW p \in DOMAIN h
    PROVE  LET g == AnswerSkippedCalls(h, p)
               a == ParentOfResults(h, p)
           IN  /\ Sound(g) /\ Len(g) >= Len(h)
               /\ \A i \in 1..Len(h) : g[i] = h[i]
               /\ \A i \in Len(h) + 1..Len(g) :
                     /\ a # 0 /\ h[a].kind = "response"
                     /\ g[i].kind = "result" /\ g[i].via = h[p].via /\ g[i].of = h[a].of
                     /\ ~IsResult(h, p, h[a].of, g[i].call)
<1> DEFINE g == AnswerSkippedCalls(h, p)
           a == ParentOfResults(h, p)
           S == Skipped(h, a, p)
           t == [n \in 1..Cardinality(S) |-> Result(h[a].of, Ordered(S)[n], h[p].via, "Cancelled")]
<1>1. h \in Seq(Items) /\ Len(h) \in Nat /\ DOMAIN h = 1..Len(h)
  BY DEF Sound
<1>2. a \in 0..p - 1
  BY <1>1, ParentFacts, Zenon
<1>3. CASE a = 0 \/ h[a].kind # "response"
  <2>1. g = h
    BY <1>3, Zenon DEF AnswerSkippedCalls
  <2>2. QED BY <1>1, <2>1
<1>4. CASE a # 0 /\ h[a].kind = "response"
  <2>1. g = h \o t
    BY <1>4, Zenon DEF AnswerSkippedCalls
  <2>2. a \in DOMAIN h /\ h[a].of \in Responses /\ h[p] \in Items
    BY <1>1, <1>2, <1>4 DEF Sound
  <2>3. calls[h[a].of] \in 0..MaxCalls /\ h[p].via \in 0..MaxResponses /\ h[a].of \in 0..MaxResponses
    BY <2>2, ResponsesType DEF Items
  <2>4. S \in SUBSET (1..calls[h[a].of]) /\ calls[h[a].of] \in Nat
    BY <2>3, ResponsesType DEF Skipped
  <2>5. Cardinality(S) \in Nat /\ \A n \in 1..Cardinality(S) : Ordered(S)[n] \in S
    BY <2>4, OrderedMembers, Zenon
  <2>6. ASSUME NEW n \in 1..Cardinality(S)
        PROVE  /\ t[n] \in Items /\ t[n].kind = "result" /\ t[n].via = h[p].via /\ t[n].of = h[a].of
               /\ ~IsResult(h, p, h[a].of, t[n].call)
    <3>1. Ordered(S)[n] \in S /\ Ordered(S)[n] \in 0..MaxCalls
      BY <2>3, <2>4, <2>5, ResponsesType
    <3>2. ~IsResult(h, p, h[a].of, Ordered(S)[n])
      BY <3>1, Zenon DEF Skipped
    <3>3. "Cancelled" \in Statuses
      BY DEF Statuses
    <3>4. t[n] = Result(h[a].of, Ordered(S)[n], h[p].via, "Cancelled")
      OBVIOUS
    <3> HIDE DEF t, S
    <3>5. QED BY <2>3, <3>1, <3>2, <3>3, <3>4, ResultItem
  <2> HIDE DEF g, a, S
  <2>7. t \in Seq(Items) /\ Len(t) = Cardinality(S)
    BY <2>5, <2>6
  <2> HIDE DEF t
  <2>8. /\ g \in Seq(Items) /\ Len(g) = Len(h) + Len(t)
        /\ \A i \in 1..Len(h) + Len(t) : g[i] = IF i <= Len(h) THEN h[i] ELSE t[i - Len(h)]
    BY <1>1, <2>1, <2>7, ConcatProperties
  <2>9. \A i \in 1..Len(h) : g[i] = h[i]
    BY <1>1, <2>5, <2>7, <2>8
  <2>10. ASSUME NEW i \in Len(h) + 1..Len(g)
         PROVE  /\ g[i].kind = "result" /\ g[i].via = h[p].via /\ g[i].of = h[a].of
                /\ ~IsResult(h, p, h[a].of, g[i].call)
    <3>1. i - Len(h) \in 1..Cardinality(S) /\ g[i] = t[i - Len(h)]
      BY <1>1, <2>5, <2>7, <2>8
    <3>2. QED BY <2>6, <3>1
  <2>11. ASSUME NEW i \in DOMAIN g, g[i].kind = "response" PROVE g[i].of \in Responses
    <3>1. i \in 1..Len(g)
      BY <2>8
    <3>2. i \in 1..Len(h)
      BY <1>1, <2>8, <2>10, <2>11, <3>1
    <3>3. QED BY <1>1, <2>9, <2>11, <3>2 DEF Sound
  <2>12. Len(g) >= Len(h)
    BY <1>1, <2>5, <2>7, <2>8
  <2>13. QED BY <1>4, <2>8, <2>9, <2>10, <2>11, <2>12 DEF Sound, g, a
<1>5. QED BY <1>3, <1>4

\* A history that does not change carries its results.
LEMMA CarriedSame == ASSUME NEW h PROVE Carried(h, h)
BY DEF Carried

\* Answering the calls a delivered result skipped carries the results.
LEMMA FirstCarried ==
    ASSUME NEW h, Sound(h), calls \in [Responses -> 0..MaxCalls], NEW p \in DOMAIN h, First(h[p])
    PROVE  Sound(AnswerSkippedCalls(h, p)) /\ Carried(h, AnswerSkippedCalls(h, p))
<1> DEFINE g == AnswerSkippedCalls(h, p)
           a == ParentOfResults(h, p)
<1>1. /\ Sound(g) /\ Len(g) >= Len(h)
      /\ \A i \in 1..Len(h) : g[i] = h[i]
      /\ \A i \in Len(h) + 1..Len(g) :
            /\ g[i].kind = "result" /\ g[i].via = h[p].via /\ g[i].of = h[a].of
            /\ ~IsResult(h, p, h[a].of, g[i].call)
  BY SkippedAnswered
<1> HIDE DEF g, a
<1>2. DOMAIN h = 1..Len(h) /\ Len(h) \in Nat /\ DOMAIN g = 1..Len(g) /\ Len(g) \in Nat
  BY <1>1 DEF Sound
<1>3. ASSUME NEW i \in DOMAIN g \ DOMAIN h PROVE Derived(h, g[i])
  <2>1. i \in Len(h) + 1..Len(g)
    BY <1>2
  <2>2. /\ g[i].kind = "result" /\ g[i].via = h[p].via /\ g[i].of = h[a].of
        /\ ~IsResult(h, p, h[a].of, g[i].call)
    BY <1>1, <2>1
  <2>3. QED BY <2>2 DEF Derived, Own, First, IsResult
<1>4. Carried(h, g)
  BY <1>1, <1>2, <1>3 DEF Carried
<1>5. QED BY <1>1, <1>4 DEF g

\* Saving the content of a response carries the results.
LEMMA SavedCarried ==
    ASSUME NEW h, NEW g, Carried(h, g), Sound(g), NEW m \in Responses,
           NEW s \in Statuses \cup {"Streaming", "Complete"}
    PROVE  LET k == [i \in DOMAIN g |-> IF IsResponse(g, i, m) THEN Response(m, s) ELSE g[i]]
           IN  Sound(k) /\ Carried(h, k)
<1> DEFINE k == [i \in DOMAIN g |-> IF IsResponse(g, i, m) THEN Response(m, s) ELSE g[i]]
<1>1. g \in Seq(Items) /\ DOMAIN g = 1..Len(g) /\ Len(g) \in Nat /\ m \in 0..MaxResponses
  BY ResponsesType DEF Sound
<1>2. Response(m, s) \in Items /\ Response(m, s).kind = "response" /\ Response(m, s).of = m
  BY <1>1, ResponsesType DEF Response, Items
<1>3. \A i \in 1..Len(g) : g[i] \in Items
  BY <1>1
<1>4. ASSUME NEW i \in DOMAIN g
      PROVE  k[i] \in Items /\ k[i].kind = g[i].kind /\ k[i].of = g[i].of
             /\ (g[i].kind # "response" => k[i] = g[i])
  <2>1. CASE IsResponse(g, i, m)
    BY <1>2, <2>1 DEF IsResponse
  <2>2. CASE ~IsResponse(g, i, m)
    BY <1>1, <1>3, <2>2
  <2>3. QED BY <2>1, <2>2
<1>5. k \in Seq(Items) /\ DOMAIN k = DOMAIN g
  BY <1>1, <1>4
<1> HIDE DEF k
<1>6. Sound(k)
  BY <1>4, <1>5 DEF Sound
<1>7. \A i \in DOMAIN k \cap DOMAIN h :
          k[i].kind = h[i].kind /\ k[i].of = h[i].of /\ (h[i].kind = "result" => k[i] = h[i])
  BY <1>4, <1>5 DEF Carried
<1>8. \A i \in DOMAIN k \ DOMAIN h : Derived(h, k[i])
  <2>1. ASSUME NEW i \in DOMAIN k \ DOMAIN h PROVE Derived(h, k[i])
    <3>1. i \in DOMAIN g /\ Derived(h, g[i])
      BY <1>5 DEF Carried
    <3>2. k[i] = g[i]
      BY <1>4, <3>1 DEF Derived
    <3>3. QED BY <3>1, <3>2
  <2>2. QED BY <2>1
<1>9. Carried(h, k)
  BY <1>5, <1>7, <1>8 DEF Carried
<1>10. QED BY <1>6, <1>9 DEF k

\* Rolling a response at the tip back carries the results.
LEMMA FrontCarried ==
    ASSUME NEW h, Sound(h), h # <<>>, h[Len(h)].kind = "response"
    PROVE  Sound(Front(h)) /\ Carried(h, Front(h))
<1>1. h \in Seq(Items) /\ DOMAIN h = 1..Len(h) /\ Len(h) \in Nat \ {0}
  BY DEF Sound
<1>2. /\ Front(h) \in Seq(Items) /\ Len(Front(h)) = Len(h) - 1 /\ DOMAIN Front(h) = 1..Len(h) - 1
      /\ \A i \in 1..Len(h) - 1 : Front(h)[i] = h[i]
  BY <1>1 DEF Front
<1>3. Sound(Front(h))
  BY <1>1, <1>2 DEF Sound
<1>4. \A i \in DOMAIN h : h[i].kind = "result" => i \in DOMAIN Front(h)
  BY <1>1, <1>2
<1>5. QED BY <1>1, <1>2, <1>3, <1>4 DEF Carried

\* recover_interrupted_stream carries the results.
LEMMA RecoveredCarried ==
    ASSUME Sound(history), calls \in [Responses -> 0..MaxCalls], OrderInv
    PROVE  /\ Sound(RecoverInterruptedStream(history))
           /\ Carried(history, RecoverInterruptedStream(history))
<1> DEFINE h == history
           n == Len(h)
           a == ParentOfResults(h, n)
           k == [h EXCEPT ![a].how = "Complete"]
           g == AnswerSkippedCalls(k, a + 1)
<1>1. h \in Seq(Items) /\ DOMAIN h = 1..n /\ n \in Nat
  BY DEF Sound
<1>2. CASE h = <<>>
  BY <1>2, CarriedSame DEF RecoverInterruptedStream
<1>3. CASE h # <<>> /\ h[n].kind = "response" /\ h[n].how = "Streaming"
  BY <1>3, FrontCarried DEF RecoverInterruptedStream
<1>4. CASE /\ h # <<>> /\ ~(h[n].kind = "response" /\ h[n].how = "Streaming")
           /\ ~(h[n].kind = "result" /\ a > 0 /\ IsResponse(h, a, h[a + 1].of))
  BY <1>4, CarriedSame DEF RecoverInterruptedStream
<1>5. CASE h # <<>> /\ h[n].kind = "result" /\ a > 0 /\ IsResponse(h, a, h[a + 1].of)
  <2>1. RecoverInterruptedStream(history) = g
    BY <1>5, Zenon DEF RecoverInterruptedStream
  <2>2. n \in DOMAIN h
    BY <1>1, <1>5
  <2>3. a \in 0..n - 1 /\ \A i \in a + 1..n - 1 : h[i].kind = "result"
    BY <1>1, <2>2, ParentFacts, Zenon
  <2>4. a \in 1..n - 1 /\ a + 1 \in DOMAIN h /\ h[a + 1].kind = "result"
        /\ h[a].kind = "response" /\ h[a].of = h[a + 1].of
    BY <1>1, <1>5, <2>3 DEF IsResponse
  <2> HIDE DEF a, n
  <2>5. /\ k \in Seq(Items) /\ Len(k) = n
        /\ \A i \in 1..n : i # a => k[i] = h[i]
        /\ k[a].kind = h[a].kind /\ k[a].of = h[a].of
    <3> DEFINE x == [h[a] EXCEPT !.how = "Complete"]
    <3>1. h[a] \in Items /\ a \in DOMAIN h
      BY <1>1, <2>4
    <3>2. x \in Items /\ x.kind = h[a].kind /\ x.of = h[a].of
      BY <3>1 DEF Items
    <3>3. k = [h EXCEPT ![a] = x]
      BY <3>1
    <3> HIDE DEF x, k
    <3>4. QED BY <1>1, <3>1, <3>2, <3>3 DEF n
  <2>6. DOMAIN k = 1..n
    BY <2>5
  <2> HIDE DEF k
  <2>7. Sound(k)
    <3>1. \A i \in 1..n : k[i].kind = h[i].kind /\ k[i].of = h[i].of
      BY <2>4, <2>5
    <3>2. \A i \in 1..n : h[i].kind = "response" => h[i].of \in Responses
      BY <1>1 DEF Sound
    <3>3. QED BY <2>5, <2>6, <3>1, <3>2 DEF Sound
  <2>8. a + 1 \in DOMAIN k /\ k[a + 1] = h[a + 1]
    BY <1>1, <2>4, <2>5, <2>6
  <2>9. ParentOfResults(k, a + 1) = a
    <3> DEFINE q == a + 1
    <3>1. /\ ParentOfResults(k, q) \in 0..q - 1
          /\ \A i \in ParentOfResults(k, q) + 1..q - 1 : k[i].kind = "result"
      <4>1. q \in DOMAIN k /\ k \in Seq(Items)
        BY <2>5, <2>8
      <4> HIDE DEF q
      <4>2. QED BY <4>1, ParentFacts, Zenon
    <3>2. k[a].kind # "result"
      BY <2>4, <2>5
    <3> DEFINE b == ParentOfResults(k, q)
    <3>3. b \in 0..a /\ \A i \in b + 1..a : k[i].kind = "result"
      <4>1. q - 1 = a
        BY <2>4
      <4>2. QED BY <3>1, <4>1, Zenon
    <3> HIDE DEF b
    <3>4. b = a
      BY <2>4, <3>2, <3>3
    <3>5. QED BY <3>4 DEF b
  <2>10. /\ Sound(g) /\ Len(g) >= Len(k)
         /\ \A i \in 1..Len(k) : g[i] = k[i]
         /\ \A i \in Len(k) + 1..Len(g) :
               /\ g[i].kind = "result" /\ g[i].via = k[a + 1].via /\ g[i].of = k[a].of
               /\ ~IsResult(k, a + 1, k[a].of, g[i].call)
    BY <2>7, <2>8, <2>9, SkippedAnswered
  <2> HIDE DEF g
  <2>11. DOMAIN g = 1..Len(g) /\ Len(g) \in Nat
    BY <2>10 DEF Sound
  <2>12. \A i \in 1..n : g[i].kind = h[i].kind /\ g[i].of = h[i].of /\ (h[i].kind = "result" => g[i] = h[i])
    <3>1. ASSUME NEW i \in 1..n
          PROVE  g[i].kind = h[i].kind /\ g[i].of = h[i].of /\ (h[i].kind = "result" => g[i] = h[i])
      <4>1. g[i] = k[i]
        BY <2>5, <2>10
      <4>2. CASE i = a
        BY <2>4, <2>5, <4>1, <4>2
      <4>3. CASE i # a
        BY <2>5, <4>1, <4>3
      <4>4. QED BY <4>2, <4>3
    <3>2. QED BY <3>1
  <2>13. ASSUME NEW i \in DOMAIN g \ DOMAIN h PROVE Derived(h, g[i])
    <3>1. i \in Len(k) + 1..Len(g)
      BY <1>1, <2>5, <2>11
    <3>2. /\ g[i].kind = "result" /\ g[i].via = h[a + 1].via /\ g[i].of = h[a + 1].of
          /\ ~(h[a + 1].call = g[i].call)
      <4>1. /\ g[i].kind = "result" /\ g[i].via = k[a + 1].via /\ g[i].of = k[a].of
            /\ ~IsResult(k, a + 1, k[a].of, g[i].call)
        BY <2>10, <3>1
      <4>2. QED BY <2>4, <2>5, <2>8, <4>1 DEF IsResult
    <3>3. ASSUME Own(g[i]) PROVE First(h[a + 1])
      <4>1. Own(h[a + 1])
        BY <2>4, <3>2, <3>3 DEF Own
      <4>2. ASSUME h[a + 1].call # 1 PROVE FALSE
        <5>1. PICK j \in 1..a + 1 - 1 : First(h[j]) /\ h[j].of = h[a + 1].of
          BY <2>4, <4>1, <4>2 DEF OrderInv, InOrder
        <5>2. j \in DOMAIN h /\ a \in DOMAIN h /\ a \in Nat /\ j \in Nat
          BY <1>1, <2>4, <5>1
        <5>3. a < j
          BY <2>4, <5>1, <5>2 DEF OrderInv, InOrder, First, IsResponse
        <5>4. QED BY <5>1, <5>2, <5>3
      <4>3. QED BY <4>1, <4>2 DEF First
    <3>4. QED BY <2>4, <3>2, <3>3 DEF Derived, First
  <2>14. Carried(h, g)
    <3>1. DOMAIN h \subseteq DOMAIN g
      BY <1>1, <2>5, <2>10, <2>11
    <3>2. QED BY <1>1, <2>12, <2>13, <3>1 DEF Carried
  <2>15. QED BY <2>1, <2>10, <2>14
<1>6. QED BY <1>2, <1>3, <1>4, <1>5

-----------------------------------------------------------------------------
(* The inductive invariant. *)

\* Turns, without a bound on the queue entries that a preparation took.
Actors == [stage : Stages, resp : 0..MaxResponses,
           origin : {"none", "send", "queue", "continue", "intercept", "retry"},
           live : BOOLEAN, active : BOOLEAN, stop : BOOLEAN, take : Nat]

ShapeInv ==
    /\ turn \in [Runtimes -> Actors] /\ rec \in [Runtimes -> Recoveries]
    /\ Sound(history) /\ calls \in [Responses -> 0..MaxCalls]
    /\ records \in [Responses -> [phase : Phases, status : Statuses]]
    /\ made \in 0..MaxResponses /\ queued \in Nat /\ started \in [Responses -> Nat]

Receiving == {"streaming", "completed"}

\* Nothing about the answer of response v will change: its execution is finished, or it has none
\* and no process will create one.
Settled(v) ==
    /\ v \in 1..made
    /\ \/ records[v].phase = "Finished"
       \/ /\ records[v].phase = "none"
          /\ \A r \in Runtimes : turn[r].resp = v => turn[r].stage \notin Receiving

\* Results stem from settled responses only, and the first one says what the record says.
ResultsInv == \A i \in DOMAIN history : history[i].kind = "result" => Settled(history[i].via)
AgreesInv ==
    \A i \in DOMAIN history : First(history[i]) /\ records[history[i].of].phase # "none" =>
        history[i].how = records[history[i].of].status

\* What the stage of a turn x tells about its response.
StageOK(x) ==
    /\ x.resp \in 0..made
    /\ x.stage \in {"streaming", "cancelling", "completed"} => x.resp # 0 /\ records[x.resp].phase = "none"
    /\ x.stage \in {"created", "approval", "starting", "running"} => x.resp # 0
    /\ x.stage \in {"ended", "finished"} => x.resp # 0 /\ records[x.resp].phase = "Finished"
    /\ x.stage \in {"cancelling", "delivered"} => x.resp # 0 /\ Linked(x.resp)
StageInv == \A r \in Runtimes : StageOK(turn[r])

\* A response is in the hands of one process.
OneHolder == \A r, q \in Runtimes : turn[r].resp = turn[q].resp => r = q \/ turn[r].resp = 0

\* What a recovery y has found out still holds.
RecOK(y) ==
    /\ \A m \in Responses : y.seen[m] = "Finished" => records[m].phase = "Finished"
    /\ y.todo # {} /\ y.at = "append" => records[Min(y.todo)].phase = "Finished"
    /\ y.todo # {} /\ y.at = "skip" => Linked(Min(y.todo))
RecInv == \A r \in Runtimes : RecOK(rec[r])

StartInv ==
    \A m \in Responses :
        /\ records[m].phase \in {"none", "Prepared", "AwaitingApproval"} => started[m] = 0
        /\ m > made => records[m].phase = "none"

IInv ==
    /\ ShapeInv /\ ResultsInv /\ AgreesInv /\ OrderInv
    /\ StageInv /\ OneHolder /\ RecInv /\ StartInv

-----------------------------------------------------------------------------
(* What steps do to the turns. *)
Resting == {"idle", "preparing", "down"}

\* The turn of r becomes one at a stage of S with the response m, the others stay.
Puts(r, S, m) == \E x \in Actors : turn' = [turn EXCEPT ![r] = x] /\ x.stage \in S /\ x.resp = m
Rests(r) == Puts(r, Resting, 0)

\* Marking the turn as active or not changes neither stage nor response.
LEMMA Flagged ==
    ASSUME NEW x \in Actors, NEW b \in BOOLEAN
    PROVE  LET y == [x EXCEPT !.active = b] IN y \in Actors /\ y.stage = x.stage /\ y.resp = x.resp
BY DEF Actors

\* An idle actor and a stopped one have no response.
LEMMA IdleActors ==
    /\ Idle \in Actors /\ Idle.stage \in Resting /\ Idle.resp = 0
    /\ Down \in Actors /\ Down.stage \in Resting /\ Down.resp = 0
<1>1. 0 \in 0..MaxResponses /\ 0 \in Nat
  BY ResponsesType
<1>2. Idle \in Actors /\ Idle.stage \in Resting /\ Idle.resp = 0
  BY <1>1 DEF Actors, Idle, Resting, Stages
<1>3. Down \in Actors /\ Down.stage \in Resting /\ Down.resp = 0
  BY <1>1 DEF Actors, Idle, Down, Resting, Stages
<1>4. QED BY <1>2, <1>3

\* An actor that prepares a turn has no response yet.
LEMMA PreparingActors ==
    ASSUME NEW o \in {"send", "queue", "continue", "intercept", "retry"}, NEW t \in Nat
    PROVE  Preparing(o, t) \in Actors /\ Preparing(o, t).stage \in Resting /\ Preparing(o, t).resp = 0
<1>1. 0 \in 0..MaxResponses
  BY ResponsesType
<1>2. QED BY <1>1 DEF Actors, Idle, Preparing, Resting, Stages

\* finish_turn and drain leave an actor without a response.
LEMMA FinishRests ==
    ASSUME queued \in Nat, NEW r \in Runtimes, FinishTurn(r) \/ FinishAndDrain(r)
    PROVE  Rests(r)
<1>1. Drained \in Actors /\ Drained.stage \in Resting /\ Drained.resp = 0
  BY IdleActors, PreparingActors DEF Drained
<1>2. QED BY <1>1, IdleActors, Zenon DEF FinishTurn, FinishAndDrain, Rests, Puts

\* Going on to another stage keeps the response.
LEMMA ToPuts ==
    ASSUME turn \in [Runtimes -> Actors], NEW r \in Runtimes, NEW s \in Stages, To(r, s)
    PROVE  Puts(r, {s}, turn[r].resp)
<1> DEFINE x == [turn[r] EXCEPT !.stage = s]
<1>1. turn[r] \in Actors
  OBVIOUS
<1>2. x \in Actors /\ x.stage = s /\ x.resp = turn[r].resp
  BY <1>1 DEF Actors
<1>3. turn' = [turn EXCEPT ![r] = x]
  BY DEF To
<1>4. QED BY <1>2, <1>3 DEF Puts

\* A turn that does not change keeps stage and response.
LEMMA SamePuts ==
    ASSUME turn \in [Runtimes -> Actors], NEW r \in Runtimes, turn' = turn
    PROVE  Puts(r, {turn[r].stage}, turn[r].resp)
BY DEF Puts

\* What Puts says about every turn.
LEMMA PutsFacts ==
    ASSUME turn \in [Runtimes -> Actors], NEW r \in Runtimes, NEW S, NEW m, Puts(r, S, m)
    PROVE  /\ turn' \in [Runtimes -> Actors] /\ turn'[r].stage \in S /\ turn'[r].resp = m
           /\ \A q \in Runtimes : q # r => turn'[q] = turn[q]
BY DEF Puts

Nexts == {"none", "send", "busy", "queue", "continue", "intercept", "retry", "sweep"}

QuietTurn(r) ==
    \/ Rests(r) \/ Puts(r, {turn[r].stage}, turn[r].resp)
    \/ turn[r].stage \in {"created", "approval"} /\ Puts(r, {"starting"}, turn[r].resp)

QuietRec(r) ==
    \/ rec' = rec \/ rec' = [rec EXCEPT ![r] = NoRecovery]
    \/ \E next \in Nexts : rec' = [rec EXCEPT ![r] = Listed(next)]

\* A step of r that changes neither history nor records.
QuietStep(r) ==
    /\ history' = history /\ calls' = calls /\ records' = records /\ started' = started /\ made' = made
    /\ queued' \in Nat /\ QuietTurn(r) /\ QuietRec(r)

\* A handler that has the lease enqueues a message or starts a preparation, and no more.
LEMMA GrantedQuiet ==
    ASSUME ShapeInv, NEW r \in Runtimes, NEW next \in Nexts \ {"none", "sweep"}, Granted(r, next)
    PROVE  queued' \in Nat /\ QuietTurn(r)
<1> DEFINE entries == IF next \in {"busy", "queue"} THEN queued + 1 ELSE queued
           refused == entries > queued /\ ~CanWrite(r)
           t == IF next = "send" THEN 0 ELSE entries
           x == [Preparing(next, t) EXCEPT !.active = turn[r].active]
<1>1. queued \in Nat /\ turn \in [Runtimes -> Actors]
  BY DEF ShapeInv
<1>2. entries \in Nat /\ t \in Nat
  BY <1>1
<1>3. /\ queued' = IF refused THEN queued ELSE entries
      /\ turn' = IF next = "busy" \/ refused THEN turn ELSE [turn EXCEPT ![r] = x]
  BY Zenon DEF Granted
<1>4. queued' \in Nat
  BY <1>1, <1>2, <1>3
<1>5. ASSUME next # "busy" PROVE x \in Actors /\ x.stage \in Resting /\ x.resp = 0
  <2>1. turn[r].active \in BOOLEAN
    BY <1>1 DEF Actors
  <2>2. next \in {"send", "queue", "continue", "intercept", "retry"}
    BY <1>5 DEF Nexts
  <2>3. Preparing(next, t) \in Actors /\ Preparing(next, t).stage \in Resting /\ Preparing(next, t).resp = 0
    BY <1>2, <2>2, PreparingActors
  <2> HIDE DEF t
  <2>4. QED BY <2>1, <2>3, Flagged
<1>6. CASE turn' = turn
  BY <1>1, <1>4, <1>6, SamePuts DEF QuietTurn
<1>7. CASE next # "busy" /\ turn' = [turn EXCEPT ![r] = x]
  <2> HIDE DEF x
  <2>1. Rests(r)
    BY <1>5, <1>7, Zenon DEF Rests, Puts
  <2>2. QED BY <1>4, <2>1 DEF QuietTurn
<1>8. QED BY <1>3, <1>6, <1>7

\* ensure_lease goes on, or begins a recovery while the actor rests.
LEMMA EnsureQuiet ==
    ASSUME ShapeInv, NEW r \in Runtimes, NEW next \in Nexts \ {"none", "sweep"}, NEW waiting \in Actors,
           waiting.stage \in Resting, waiting.resp = 0, EnsureLease(r, next, waiting)
    PROVE  queued' \in Nat /\ QuietTurn(r) /\ QuietRec(r)
<1>1. CASE Granted(r, next) /\ rec' = rec
  BY <1>1, GrantedQuiet DEF QuietRec
<1>2. CASE rec' = [rec EXCEPT ![r] = Listed(next)] /\ turn' = [turn EXCEPT ![r] = waiting] /\ queued' = queued
  <2>1. QuietRec(r)
    BY <1>2, Zenon DEF QuietRec
  <2>2. Rests(r)
    BY <1>2 DEF Rests, Puts
  <2>3. queued' \in Nat
    BY <1>2 DEF ShapeInv
  <2>4. QED BY <2>1, <2>2, <2>3 DEF QuietTurn
<1>3. QED BY <1>1, <1>2, Zenon DEF EnsureLease

\* The same for a handler that keeps what it has while it waits.
LEMMA EnsureKeeps ==
    ASSUME ShapeInv, NEW r \in Runtimes, NEW next \in Nexts \ {"none", "sweep"}, EnsureLease(r, next, turn[r])
    PROVE  queued' \in Nat /\ QuietTurn(r) /\ QuietRec(r)
<1>1. CASE Granted(r, next) /\ rec' = rec
  BY <1>1, GrantedQuiet DEF QuietRec
<1>2. CASE rec' = [rec EXCEPT ![r] = Listed(next)] /\ turn' = [turn EXCEPT ![r] = turn[r]] /\ queued' = queued
  <2>1. QuietRec(r)
    BY <1>2, Zenon DEF QuietRec
  <2>2. turn[r] \in Actors
    BY DEF ShapeInv
  <2>3. Puts(r, {turn[r].stage}, turn[r].resp)
    BY <1>2, <2>2 DEF Puts
  <2>4. queued' \in Nat
    BY <1>2 DEF ShapeInv
  <2>5. QED BY <2>1, <2>3, <2>4 DEF QuietTurn
<1>3. QED BY <1>1, <1>2, Zenon DEF EnsureLease

\* An actor at rest that keeps its active turn.
LEMMA WaitingActor ==
    ASSUME ShapeInv, NEW r \in Runtimes
    PROVE  LET x == [Idle EXCEPT !.active = turn[r].active]
           IN  x \in Actors /\ x.stage \in Resting /\ x.resp = 0
<1>1. turn[r].active \in BOOLEAN
  BY DEF ShapeInv, Actors
<1>2. QED BY <1>1, IdleActors, Flagged

\* finish_turn is quiet.
LEMMA FinishQuiet ==
    ASSUME ShapeInv, NEW r \in Runtimes, FinishTurn(r) \/ FinishAndDrain(r)
    PROVE  QuietTurn(r)
<1>1. queued \in Nat
  BY DEF ShapeInv
<1>2. Rests(r)
  BY <1>1, FinishRests
<1>3. QED BY <1>2 DEF QuietTurn

\* A failed step of a handler or of a recovery is quiet.
LEMMA FailQuiet ==
    ASSUME ShapeInv, NEW r \in Runtimes, FailScriptTurn(r) \/ RecoverFail(r)
    PROVE  QuietStep(r)
<1>1. CASE FailScriptTurn(r)
  BY <1>1, FinishQuiet DEF FailScriptTurn, QuietStep, QuietRec, durable, ShapeInv
<1>2. CASE RecoverFail(r)
  <2>1. turn \in [Runtimes -> Actors]
    BY DEF ShapeInv
  <2> DEFINE b == turn[r].active /\ Owns(r)
             x == [turn[r] EXCEPT !.live = FALSE, !.active = b]
  <2>2. turn' = [turn EXCEPT ![r] = x]
    BY <1>2 DEF RecoverFail
  <2>3. b \in BOOLEAN
    BY Zenon
  <2> HIDE DEF b
  <2>4. x \in Actors /\ x.stage = turn[r].stage /\ x.resp = turn[r].resp
    BY <2>1, <2>3 DEF Actors
  <2> HIDE DEF x
  <2>5. QuietTurn(r)
    BY <2>2, <2>4 DEF QuietTurn, Puts
  <2>6. QED BY <1>2, <2>5 DEF RecoverFail, QuietStep, QuietRec, durable, ShapeInv
<1>3. QED BY <1>1, <1>2

\* What a recovery goes on with.
LEMMA NextRecovery ==
    ASSUME ShapeInv, NEW r \in Runtimes
    PROVE  rec[r].next \in Nexts
BY DEF ShapeInv, Recoveries, Nexts

\* Dropping the response in hand is quiet.
LEMMA DroppedQuiet ==
    ASSUME ShapeInv, NEW r \in Runtimes, turn' = [turn EXCEPT ![r].stage = "idle", ![r].resp = 0]
    PROVE  QuietTurn(r)
<1> DEFINE x == [turn[r] EXCEPT !.stage = "idle", !.resp = 0]
<1>1. turn' = [turn EXCEPT ![r] = x]
  OBVIOUS
<1>2. 0 \in 0..MaxResponses /\ "idle" \in Stages /\ turn[r] \in Actors
  BY ResponsesType DEF Stages, ShapeInv
<1>3. x \in Actors /\ x.stage = "idle" /\ x.resp = 0
  BY <1>2 DEF Actors
<1> HIDE DEF x
<1>4. QED BY <1>1, <1>3 DEF QuietTurn, Rests, Puts, Resting

\* The actions that change neither history nor records.
LEMMA QuietActions ==
    ASSUME ShapeInv, NEW r \in Runtimes,
           \/ Send(r) \/ PrepareFail(r) \/ RecoverDone(r) \/ StreamLost(r) \/ ScriptBroken(r)
           \/ StartPrepared(r) \/ CancelTurn(r) \/ DiscardQueue(r) \/ Renew(r)
           \/ Crash(r) \/ Shutdown(r) \/ Start(r)
    PROVE  QuietStep(r)
<1>1. turn \in [Runtimes -> Actors] /\ queued \in Nat /\ turn[r] \in Actors
  BY DEF ShapeInv
<1> USE DEF QuietStep
<1>2. CASE Send(r)
  <2> DEFINE next == IF turn[r].stage # "idle" \/ turn[r].active THEN "busy"
                     ELSE IF queued > 0 THEN "queue" ELSE "send"
  <2>1. next \in Nexts \ {"none", "sweep"}
    BY DEF Nexts
  <2>2. EnsureLease(r, next, turn[r])
    BY <1>2 DEF Send
  <2> HIDE DEF next
  <2>3. queued' \in Nat /\ QuietTurn(r) /\ QuietRec(r)
    BY <2>1, <2>2, EnsureKeeps
  <2>4. QED BY <1>2, <2>3, Zenon DEF Send
<1>3. CASE PrepareFail(r)
  <2>1. CASE FinishTurn(r) /\ UNCHANGED <<rec, queued, overtaken>>
    BY <1>1, <1>3, <2>1, FinishQuiet DEF PrepareFail, QuietRec
  <2>2. CASE FinishAndDrain(r) /\ UNCHANGED <<rec, queued, overtaken>>
    BY <1>1, <1>3, <2>2, FinishQuiet DEF PrepareFail, QuietRec
  <2>3. CASE EnsureLease(r, IF queued > 0 THEN "retry" ELSE "continue", [Idle EXCEPT !.active = turn[r].active])
    <3> DEFINE next == IF queued > 0 THEN "retry" ELSE "continue"
    <3>1. next \in Nexts \ {"none", "sweep"}
      BY DEF Nexts
    <3> HIDE DEF next
    <3>2. queued' \in Nat /\ QuietTurn(r) /\ QuietRec(r)
      BY <2>3, <3>1, EnsureQuiet, WaitingActor DEF next
    <3>3. QED BY <1>3, <3>2 DEF PrepareFail
  <2>4. CASE turn' = [turn EXCEPT ![r] = [Idle EXCEPT !.active = turn[r].active]] /\ UNCHANGED <<lease, rec, queued, overtaken>>
    <3>1. Rests(r)
      BY <2>4, WaitingActor DEF Rests, Puts
    <3>2. QED BY <1>1, <1>3, <2>4, <3>1 DEF PrepareFail, QuietRec, QuietTurn
  <2>5. QED BY <1>3, <2>1, <2>2, <2>3, <2>4 DEF PrepareFail
<1>4. CASE RecoverDone(r)
  <2>1. rec[r].next \in Nexts \ {"none", "sweep"}
    BY <1>4, NextRecovery DEF RecoverDone
  <2>2. Granted(r, rec[r].next)
    BY <1>4 DEF RecoverDone
  <2>3. QED BY <1>4, <2>1, <2>2, GrantedQuiet DEF RecoverDone, QuietRec
<1>5. CASE StreamLost(r)
  <2>1. CASE FinishTurn(r) \/ FinishAndDrain(r)
    BY <1>1, <1>5, <2>1, FinishQuiet DEF StreamLost, QuietRec, durable
  <2>2. CASE turn' = [turn EXCEPT ![r].stage = "idle", ![r].resp = 0]
    <3>1. QuietTurn(r)
      BY <2>2, DroppedQuiet
    <3>2. QED BY <1>1, <1>5, <3>1 DEF StreamLost, QuietRec, durable
  <2>3. QED BY <1>5, <2>1, <2>2 DEF StreamLost
<1>6. CASE ScriptBroken(r)
  BY <1>6, FailQuiet DEF ScriptBroken
<1>7. CASE StartPrepared(r)
  <2>1. Puts(r, {"starting"}, turn[r].resp) /\ turn[r].stage \in {"created", "approval"}
    BY <1>1, <1>7, ToPuts DEF StartPrepared, At, Stages
  <2>2. QED BY <1>1, <1>7, <2>1 DEF StartPrepared, QuietRec, QuietTurn, durable
<1>8. CASE CancelTurn(r)
  <2>1. CASE turn' = [turn EXCEPT ![r].stop = TRUE, ![r].active = FALSE]
    <3> DEFINE x == [turn[r] EXCEPT !.stop = TRUE, !.active = FALSE]
    <3>1. turn' = [turn EXCEPT ![r] = x]
      BY <2>1
    <3>2. x \in Actors /\ x.stage = turn[r].stage /\ x.resp = turn[r].resp
      BY <1>1 DEF Actors
    <3> HIDE DEF x
    <3>3. QuietTurn(r)
      BY <3>1, <3>2 DEF QuietTurn, Puts
    <3>4. QED BY <1>1, <1>8, <3>3 DEF CancelTurn, QuietRec, durable
  <2>2. CASE FinishAndDrain(r)
    BY <1>1, <1>8, <2>2, FinishQuiet DEF CancelTurn, QuietRec, durable
  <2>3. QED BY <1>8, <2>1, <2>2 DEF CancelTurn
<1>9. CASE DiscardQueue(r)
  <2>1. QuietTurn(r)
    BY <1>1, <1>9, FinishQuiet, SamePuts DEF DiscardQueue, QuietTurn
  <2>2. QED BY <1>9, <2>1 DEF DiscardQueue, QuietRec
<1>10. CASE Renew(r)
  BY <1>1, <1>10, SamePuts DEF Renew, QuietTurn, QuietRec, durable
<1>11. CASE Crash(r) \/ Shutdown(r)
  <2>1. Rests(r)
    BY <1>11, IdleActors DEF Crash, Shutdown, Rests, Puts
  <2>2. QED BY <1>1, <1>11, <2>1 DEF Crash, Shutdown, QuietRec, QuietTurn, durable
<1>12. CASE Start(r)
  <2>1. Rests(r)
    BY <1>12, IdleActors DEF Start, Rests, Puts
  <2>2. QuietRec(r)
    BY <1>12 DEF Start, QuietRec, Nexts
  <2>3. QED BY <1>1, <1>12, <2>1, <2>2 DEF Start, QuietTurn, durable
<1>13. QED BY <1>2, <1>3, <1>4, <1>5, <1>6, <1>7, <1>8, <1>9, <1>10, <1>11, <1>12

-----------------------------------------------------------------------------
(* What a step of r may do to turns and records, whatever it does to the   *)
(* history.                                                                *)
Open == {"Prepared", "AwaitingApproval", "Running"}
Unstarted == {"none", "Prepared", "AwaitingApproval"}

\* r drops its response, keeps it, or takes the next one.
TurnStep(r) ==
    /\ turn' \in [Runtimes -> Actors]
    /\ \A q \in Runtimes : q # r => turn'[q] = turn[q]
    /\ made' \in made..MaxResponses
    /\ turn'[r].resp \in {0, turn[r].resp} \/ turn'[r].resp = made + 1
    /\ turn'[r].stage \in Receiving =>
          \/ turn'[r].resp = turn[r].resp /\ turn[r].stage \in Receiving
          \/ turn'[r].resp = made + 1

\* Only an open record changes, and r creates the one of the response it has completed.
RecordStep(r) ==
    /\ records' \in [Responses -> [phase : Phases, status : Statuses]]
    /\ \A m \in Responses :
          \/ records'[m] = records[m]
          \/ records[m].phase \in Open /\ records'[m].phase # "none"
          \/ m = turn[r].resp /\ turn[r].stage = "completed" /\ records'[m].phase # "none"

KeepsSettled == \A v : Settled(v) => Settled(v)' /\ records'[v] = records[v]
KeepsLinks == \A m : Linked(m) => Linked(m)'
KeepsFinished == \A m \in Responses : records[m].phase = "Finished" => records'[m] = records[m]

\* Responses made so far are responses.
LEMMA MadeResponses ==
    ASSUME ShapeInv
    PROVE  made \in Nat /\ 1..made \subseteq Responses /\ 0..made \subseteq 0..MaxResponses
BY ResponsesType DEF ShapeInv

\* A finished record never changes: StageInv rules out that its response is yet to be recorded.
LEMMA FinishedKept ==
    ASSUME ShapeInv, StageInv, NEW r \in Runtimes, RecordStep(r)
    PROVE  KeepsFinished
<1> SUFFICES ASSUME NEW m \in Responses, records[m].phase = "Finished"
             PROVE  records'[m] = records[m]
  BY DEF KeepsFinished
<1>1. turn[r].stage = "completed" => records[turn[r].resp].phase = "none"
  BY DEF StageInv, StageOK
<1>2. QED BY <1>1 DEF RecordStep, Open

\* A settled response stays settled, with the record it has.
LEMMA SettledKept ==
    ASSUME ShapeInv, StageInv, NEW r \in Runtimes, TurnStep(r), RecordStep(r)
    PROVE  KeepsSettled
<1> SUFFICES ASSUME NEW v, Settled(v) PROVE Settled(v)' /\ records'[v] = records[v]
  BY DEF KeepsSettled
<1>1. made \in Nat /\ v \in 1..made /\ v \in Responses /\ v \in 1..made'
  BY MadeResponses DEF Settled, TurnStep
<1>2. records'[v] = records[v]
  <2>1. CASE records[v].phase = "Finished"
    BY <1>1, <2>1, FinishedKept DEF KeepsFinished
  <2>2. CASE records[v].phase = "none" /\ \A q \in Runtimes : turn[q].resp = v => turn[q].stage \notin Receiving
    BY <1>1, <2>2 DEF RecordStep, Open, Receiving
  <2>3. QED BY <2>1, <2>2 DEF Settled
<1>3. CASE records[v].phase = "Finished"
  BY <1>1, <1>2, <1>3 DEF Settled
<1>4. CASE records[v].phase = "none" /\ \A q \in Runtimes : turn[q].resp = v => turn[q].stage \notin Receiving
  <2>1. ASSUME NEW q \in Runtimes, turn'[q].resp = v PROVE turn'[q].stage \notin Receiving
    <3>1. CASE q = r
      BY <1>1, <1>4, <2>1, <3>1 DEF TurnStep
    <3>2. CASE q # r
      BY <1>4, <2>1, <3>2 DEF TurnStep
    <3>3. QED BY <3>1, <3>2
  <2>2. QED BY <1>1, <1>2, <1>4, <2>1 DEF Settled
<1>5. QED BY <1>3, <1>4 DEF Settled

\* A step of r gives no response a second holder.
LEMMA HolderKept ==
    ASSUME ShapeInv, StageInv, OneHolder, NEW r \in Runtimes, TurnStep(r)
    PROVE  OneHolder'
<1>1. \A q \in Runtimes : turn[q].resp \in 0..made
  BY DEF StageInv, StageOK
<1>2. made \in Nat
  BY MadeResponses
<1>3. \A q \in Runtimes : q # r => turn'[r].resp # turn'[q].resp \/ turn'[r].resp = 0
  BY <1>1, <1>2 DEF TurnStep, OneHolder
<1>4. QED BY <1>3 DEF TurnStep, OneHolder

\* A step of r leaves the turns of the others in order.
LEMMA OthersStage ==
    ASSUME ShapeInv, StageInv, OneHolder, NEW r \in Runtimes, TurnStep(r), RecordStep(r), KeepsLinks,
           NEW q \in Runtimes, q # r
    PROVE  StageOK(turn[q])'
<1>0. PICK x : x = turn[q]
  OBVIOUS
<1>1. turn'[q] = x /\ StageOK(x)
  BY <1>0 DEF TurnStep, StageInv
<1>2. made \in Nat /\ made' \in Nat /\ made' >= made /\ x.resp \in 0..made
  BY <1>1, MadeResponses DEF TurnStep, StageOK
<1>3. x.resp # 0 => x.resp \in Responses /\ x.resp # turn[r].resp
  BY <1>0, <1>2, MadeResponses DEF OneHolder
<1>4. x.resp # 0 /\ records[x.resp].phase = "none" => records'[x.resp].phase = "none"
  BY <1>3 DEF RecordStep, Open
<1>5. x.resp # 0 /\ records[x.resp].phase = "Finished" => records'[x.resp].phase = "Finished"
  BY <1>3, FinishedKept DEF KeepsFinished
<1>6. Linked(x.resp) => Linked(x.resp)'
  BY DEF KeepsLinks
<1>7. x.resp \in 0..made'
  BY <1>2
<1> DEFINE y == turn'[q]
<1>8. /\ y.resp \in 0..made'
      /\ y.stage \in {"streaming", "cancelling", "completed"} => y.resp # 0 /\ records'[y.resp].phase = "none"
      /\ y.stage \in {"created", "approval", "starting", "running"} => y.resp # 0
      /\ y.stage \in {"ended", "finished"} => y.resp # 0 /\ records'[y.resp].phase = "Finished"
      /\ y.stage \in {"cancelling", "delivered"} => y.resp # 0
  BY <1>1, <1>4, <1>5, <1>7 DEF StageOK
<1>9. turn'[q].stage \in {"cancelling", "delivered"} => Linked(turn[q].resp)'
  <2>1. turn'[q].stage \in {"cancelling", "delivered"} => Linked(x.resp)'
    BY <1>1, <1>6, Zenon DEF StageOK
  <2>2. turn'[q].resp = x.resp
    BY <1>1
  <2>3. QED BY <2>1, <2>2 DEF Linked
<1>10. QED BY <1>8, <1>9, Zenon DEF StageOK

\* A recovery that a step leaves alone stays in order.
LEMMA RecKept ==
    ASSUME ShapeInv, StageInv, RecInv, NEW r \in Runtimes, RecordStep(r), KeepsLinks,
           NEW q \in Runtimes, rec'[q] = rec[q]
    PROVE  RecOK(rec[q])'
<1>0. PICK y : y = rec[q]
  OBVIOUS
<1>1. RecOK(y) /\ y \in Recoveries
  BY <1>0 DEF RecInv, ShapeInv
<1>2. \A m \in Responses : y.seen[m] = "Finished" => records'[m].phase = "Finished"
  BY <1>1, FinishedKept DEF KeepsFinished, RecOK
<1>3. y.todo # {} => Min(y.todo) \in Responses
  <2>1. y.todo \subseteq Nat /\ y.todo \subseteq Responses
    BY <1>1, ResponsesType DEF Recoveries
  <2>2. y.todo # {} => \E n \in y.todo : \A k \in y.todo : n <= k
    BY <2>1, LeastOne, Zenon
  <2>3. y.todo # {} => Min(y.todo) \in y.todo
    BY <2>2, Zenon DEF Min
  <2>4. QED BY <2>1, <2>3
<1>4. y.todo # {} /\ y.at = "append" => records'[Min(y.todo)].phase = "Finished"
  BY <1>1, <1>3, FinishedKept DEF KeepsFinished, RecOK
<1>5. y.todo # {} /\ y.at = "skip" => Linked(Min(y.todo))'
  BY <1>1, Zenon DEF RecOK, KeepsLinks
<1>6. rec'[q] = y
  BY <1>0
<1>7. (y.todo # {} /\ y.at = "skip") => Linked(Min(rec[q].todo))'
  BY <1>5, <1>6 DEF Linked
<1>8. QED BY <1>2, <1>4, <1>6, <1>7 DEF RecOK

-----------------------------------------------------------------------------
(* What a step may do to the history. *)

\* Carrying results keeps them in order.
LEMMA CarriedOrder ==
    ASSUME NEW h, NEW g, Sound(h), Sound(g), Carried(h, g), InOrder(h)
    PROVE  InOrder(g)
<1>1. DOMAIN h = 1..Len(h) /\ Len(h) \in Nat /\ DOMAIN g = 1..Len(g) /\ Len(g) \in Nat
  BY DEF Sound
<1>2. ASSUME NEW k \in DOMAIN g, NEW m, IsResponse(g, k, m) PROVE k \in DOMAIN h /\ IsResponse(h, k, m)
  BY <1>2 DEF Carried, Derived, IsResponse
<1>3. ASSUME NEW i \in DOMAIN g, Own(g[i])
      PROVE  /\ g[i].call # 1 => \E j \in 1..i - 1 : First(g[j]) /\ g[j].of = g[i].of
             /\ \A k \in DOMAIN g : IsResponse(g, k, g[i].of) => k < i
  <2>1. CASE i \in DOMAIN h
    <3>1. h[i] = g[i]
      BY <1>3, <2>1 DEF Carried, Own
    <3>2. ASSUME g[i].call # 1 PROVE \E j \in 1..i - 1 : First(g[j]) /\ g[j].of = g[i].of
      <4>1. PICK j \in 1..i - 1 : First(h[j]) /\ h[j].of = h[i].of
        BY <1>3, <2>1, <3>1, <3>2 DEF InOrder
      <4>2. j \in DOMAIN h /\ h[j].kind = "result"
        BY <1>1, <2>1, <4>1 DEF First, Own
      <4>3. g[j] = h[j]
        BY <4>2 DEF Carried
      <4>4. QED BY <3>1, <4>1, <4>3
    <3>3. QED BY <1>2, <1>3, <2>1, <3>1, <3>2 DEF InOrder
  <2>2. CASE i \notin DOMAIN h
    <3>1. i > Len(h) /\ i \in Nat
      BY <1>1, <2>2
    <3>2. PICK j \in DOMAIN h : First(h[j]) /\ h[j].of = g[i].of
      BY <1>3, <2>2 DEF Carried, Derived
    <3>3. g[j] = h[j] /\ j \in 1..i - 1
      BY <1>1, <3>1, <3>2 DEF Carried, First, Own
    <3>4. \A k \in DOMAIN g : IsResponse(g, k, g[i].of) => k < i
      BY <1>1, <1>2, <3>1
    <3>5. QED BY <3>2, <3>3, <3>4
  <2>3. QED BY <2>1, <2>2
<1>4. QED BY <1>3 DEF InOrder

\* The results of g stem from what those of h stem from, and its first results are those of h.
LEMMA CarriedResults ==
    ASSUME NEW h, NEW g, Carried(h, g)
    PROVE  /\ \A i \in DOMAIN g : g[i].kind = "result" =>
                 \E p \in DOMAIN h : h[p].kind = "result" /\ g[i].via = h[p].via
           /\ \A i \in DOMAIN g : First(g[i]) => i \in DOMAIN h /\ g[i] = h[i]
           /\ \A i \in DOMAIN h : h[i].kind = "result" => i \in DOMAIN g /\ g[i] = h[i]
BY DEF Carried, Derived, First, Own

\* What every step that leaves the settled responses alone can do to the history.
HistoryKept == ResultsInv' /\ AgreesInv' /\ OrderInv' /\ KeepsLinks

\* A history that carries its results keeps the invariant.
LEMMA CarriedKept ==
    ASSUME ShapeInv, ResultsInv, AgreesInv, OrderInv, KeepsSettled, Sound(history'), Carried(history, history')
    PROVE  HistoryKept
<1>1. PICK h, g : h = history /\ g = history'
  OBVIOUS
<1>2. Sound(h) /\ Sound(g) /\ Carried(h, g) /\ InOrder(h)
  BY <1>1 DEF ShapeInv, OrderInv
<1>3. OrderInv'
  <2>1. InOrder(g)
    BY <1>2, CarriedOrder
  <2>2. QED BY <1>1, <2>1 DEF OrderInv
<1>4. /\ \A i \in DOMAIN g : g[i].kind = "result" =>
            \E p \in DOMAIN h : h[p].kind = "result" /\ g[i].via = h[p].via
      /\ \A i \in DOMAIN g : First(g[i]) => i \in DOMAIN h /\ g[i] = h[i]
      /\ \A i \in DOMAIN h : h[i].kind = "result" => i \in DOMAIN g /\ g[i] = h[i]
  BY <1>2, CarriedResults
<1>5. ASSUME NEW i \in DOMAIN g, g[i].kind = "result" PROVE Settled(g[i].via)'
  <2>1. PICK p \in DOMAIN h : h[p].kind = "result" /\ g[i].via = h[p].via
    BY <1>4, <1>5
  <2>2. Settled(g[i].via)
    BY <1>1, <2>1 DEF ResultsInv
  <2>3. QED BY <2>2 DEF KeepsSettled
<1>6. ResultsInv'
  <2>1. SUFFICES ASSUME NEW i \in DOMAIN history', history'[i].kind = "result"
                 PROVE  Settled(history[i].via)'
    BY DEF ResultsInv
  <2>2. Settled(g[i].via)'
    BY <1>1, <1>5, <2>1
  <2>3. QED BY <1>1, <2>2 DEF Settled
<1>7. AgreesInv'
  <2>1. SUFFICES ASSUME NEW i \in DOMAIN g, First(g[i]), records'[g[i].of].phase # "none"
                 PROVE  g[i].how = records'[g[i].of].status
    BY <1>1 DEF AgreesInv
  <2>2. i \in DOMAIN h /\ g[i] = h[i]
    BY <1>4, <2>1
  <2>3. h[i].kind = "result" /\ h[i].of = h[i].via
    BY <2>1, <2>2 DEF First, Own
  <2>4. Settled(h[i].via)
    BY <1>1, <2>2, <2>3 DEF ResultsInv
  <2>5. records'[h[i].of] = records[h[i].of]
    BY <2>3, <2>4 DEF KeepsSettled
  <2>6. QED BY <1>1, <2>1, <2>2, <2>5 DEF AgreesInv
<1>8. KeepsLinks
  <2>1. SUFFICES ASSUME NEW m, Linked(m) PROVE Linked(m)'
    BY DEF KeepsLinks
  <2>2. PICK i \in DOMAIN h : h[i].kind = "result" /\ h[i].of = m /\ h[i].call = 1 /\ h[i].via = m
    BY <1>1, <2>1 DEF Linked, IsResult
  <2>3. i \in DOMAIN g /\ g[i] = h[i]
    BY <1>4, <2>2
  <2>4. QED BY <1>1, <2>2, <2>3 DEF Linked, IsResult
<1>9. QED BY <1>3, <1>6, <1>7, <1>8 DEF HistoryKept

\* A first result may be appended for a settled response, if it says what the record says.
LEMMA AppendedKept ==
    ASSUME ShapeInv, ResultsInv, AgreesInv, OrderInv, KeepsSettled,
           NEW m \in Responses, NEW s \in Statuses, history' = Append(history, Result(m, 1, m, s)),
           Settled(m)', records'[m].phase # "none" => s = records'[m].status
    PROVE  HistoryKept /\ Sound(history') /\ Linked(m)'
<1>1. PICK h, g, x : h = history /\ g = history' /\ x = Result(m, 1, m, s)
  OBVIOUS
<1>2. x \in Items /\ x.kind = "result" /\ x.of = m /\ x.call = 1 /\ x.via = m /\ x.how = s
  <2>1. m \in 0..MaxResponses /\ 1 \in 0..MaxCalls
    BY ResponsesType, ScriptTurnAssumption
  <2>2. QED BY <1>1, <2>1, ResultItem
<1>3. Sound(h) /\ h \in Seq(Items) /\ DOMAIN h = 1..Len(h) /\ Len(h) \in Nat
  BY <1>1 DEF ShapeInv, Sound
<1>4. PICK n \in Nat : n = Len(h) + 1
  BY <1>3
<1>5. /\ g \in Seq(Items) /\ Len(g) = n /\ DOMAIN g = 1..n /\ n \in DOMAIN g
      /\ g[n] = x
      /\ \A i \in DOMAIN g : i # n => i \in DOMAIN h /\ g[i] = h[i]
      /\ \A i \in DOMAIN h : i \in DOMAIN g /\ g[i] = h[i] /\ i < n
  <2>1. g = Append(h, x)
    BY <1>1
  <2>2. QED BY <1>2, <1>3, <1>4, <2>1
<1>6. Sound(g)
  BY <1>2, <1>3, <1>5 DEF Sound
<1>7. InOrder(g)
  <2>1. ASSUME NEW i \in DOMAIN g, Own(g[i])
        PROVE  /\ g[i].call # 1 => \E j \in 1..i - 1 : First(g[j]) /\ g[j].of = g[i].of
               /\ \A k \in DOMAIN g : IsResponse(g, k, g[i].of) => k < i
    <3>0. \A v : \A k \in DOMAIN g : IsResponse(g, k, v) => k \in DOMAIN h /\ IsResponse(h, k, v)
      BY <1>2, <1>5 DEF IsResponse
    <3>1. CASE i = n
      BY <1>2, <1>5, <3>0, <3>1
    <3>2. CASE i # n
      <4>1. i \in DOMAIN h /\ g[i] = h[i] /\ i \in Nat
        BY <1>3, <1>5, <3>2
      <4>2. InOrder(h)
        BY <1>1 DEF OrderInv
      <4>3. \A j \in 1..i - 1 : g[j] = h[j]
        BY <1>3, <1>5, <4>1
      <4>4. QED BY <2>1, <3>0, <4>1, <4>2, <4>3 DEF InOrder
    <3>3. QED BY <3>1, <3>2
  <2>2. QED BY <2>1 DEF InOrder
<1>8. ASSUME NEW i \in DOMAIN g, g[i].kind = "result" PROVE Settled(g[i].via)'
  <2>1. CASE i = n
    BY <1>2, <1>5, <2>1, Zenon
  <2>2. CASE i # n
    <3>1. Settled(g[i].via)
      BY <1>1, <1>5, <1>8, <2>2 DEF ResultsInv
    <3>2. QED BY <3>1 DEF KeepsSettled
  <2>3. QED BY <2>1, <2>2
<1>9. ResultsInv'
  <2>1. SUFFICES ASSUME NEW i \in DOMAIN history', history'[i].kind = "result"
                 PROVE  Settled(history[i].via)'
    BY DEF ResultsInv
  <2>2. Settled(g[i].via)'
    BY <1>1, <1>8, <2>1
  <2>3. QED BY <1>1, <2>2 DEF Settled
<1>10. AgreesInv'
  <2>1. SUFFICES ASSUME NEW i \in DOMAIN g, First(g[i]), records'[g[i].of].phase # "none"
                 PROVE  g[i].how = records'[g[i].of].status
    BY <1>1 DEF AgreesInv
  <2>2. CASE i = n
    BY <1>2, <1>5, <2>1, <2>2
  <2>3. CASE i # n
    <3>1. i \in DOMAIN h /\ g[i] = h[i]
      BY <1>5, <2>3
    <3>2. h[i].kind = "result" /\ h[i].of = h[i].via
      BY <2>1, <3>1 DEF First, Own
    <3>3. Settled(h[i].via)
      BY <1>1, <3>1, <3>2 DEF ResultsInv
    <3>4. records'[h[i].of] = records[h[i].of]
      BY <3>2, <3>3 DEF KeepsSettled
    <3>5. QED BY <1>1, <2>1, <3>1, <3>4 DEF AgreesInv
  <2>4. QED BY <2>2, <2>3
<1>11. \A i \in DOMAIN h : i \in DOMAIN g /\ g[i] = h[i]
  BY <1>5
<1>12. KeepsLinks /\ Linked(m)'
  BY <1>1, <1>2, <1>5, <1>11, Zenon DEF KeepsLinks, Linked, IsResult
<1>13. OrderInv'
  BY <1>1, <1>7 DEF OrderInv
<1>14. QED BY <1>1, <1>6, <1>9, <1>10, <1>12, <1>13 DEF HistoryKept

\* g is h with messages behind it that are no results, and with no response but one of m.
Grown(h, g, m) ==
    /\ \A i \in DOMAIN h : i \in DOMAIN g /\ g[i] = h[i]
    /\ \A i \in DOMAIN g : \/ i \in DOMAIN h /\ g[i] = h[i]
                           \/ g[i].kind # "result" /\ (g[i].kind = "response" => g[i].of = m)

\* append_messages of a preparation adds user messages and one streaming response.
LEMMA PreparedGrown ==
    ASSUME NEW h, Sound(h), NEW m \in Responses, NEW sent \in Nat
    PROVE  LET g == h \o [i \in 1..sent |-> User] \o <<Response(m, "Streaming")>>
           IN  Sound(g) /\ Grown(h, g, m)
<1> DEFINE us == [i \in 1..sent |-> User]
           x == Response(m, "Streaming")
           f == h \o us
           g == f \o <<x>>
<1>1. h \in Seq(Items) /\ DOMAIN h = 1..Len(h) /\ Len(h) \in Nat /\ m \in 0..MaxResponses
  BY ResponsesType DEF Sound
<1>2. User \in Items /\ User.kind = "user"
  <2>1. 0 \in 0..MaxResponses /\ 0 \in 0..MaxCalls
    BY ResponsesType
  <2>2. QED BY <2>1 DEF User, Items
<1>3. x \in Items /\ x.kind = "response" /\ x.of = m
  <2>1. 0 \in 0..MaxResponses /\ 0 \in 0..MaxCalls
    BY ResponsesType
  <2>2. QED BY <1>1, <2>1 DEF Response, Items
<1>4. us \in Seq(Items) /\ Len(us) = sent /\ \A i \in 1..sent : us[i] = User
  BY <1>2
<1> HIDE DEF us, x
<1>5. /\ f \in Seq(Items) /\ Len(f) = Len(h) + sent
      /\ \A i \in 1..Len(h) + sent : f[i] = IF i <= Len(h) THEN h[i] ELSE us[i - Len(h)]
  BY <1>1, <1>4, ConcatProperties
<1> HIDE DEF f
<1>6. g = Append(f, x) /\ g \in Seq(Items) /\ Len(g) = Len(f) + 1 /\ g[Len(f) + 1] = x
      /\ \A i \in 1..Len(f) : g[i] = f[i]
  BY <1>3, <1>5
<1> HIDE DEF g
<1>7. DOMAIN g = 1..Len(g)
  BY <1>6
<1>8. ASSUME NEW i \in DOMAIN g
      PROVE  (i \in DOMAIN h /\ g[i] = h[i]) \/ g[i] = User \/ g[i] = x
  <2>1. CASE i = Len(f) + 1
    BY <1>6, <2>1
  <2>2. CASE i # Len(f) + 1 /\ i <= Len(h)
    BY <1>1, <1>5, <1>6, <1>7, <2>2
  <2>3. CASE i # Len(f) + 1 /\ i > Len(h)
    <3>1. i \in 1..Len(h) + sent /\ i - Len(h) \in 1..sent
      BY <1>1, <1>5, <1>6, <1>7, <2>3
    <3>2. QED BY <1>1, <1>4, <1>5, <1>6, <2>3, <3>1
  <2>4. QED BY <1>1, <1>7, <2>1, <2>2, <2>3
<1>9. ASSUME NEW i \in DOMAIN h PROVE i \in DOMAIN g /\ g[i] = h[i]
  BY <1>1, <1>5, <1>6, <1>7
<1>10. Grown(h, g, m)
  <2>1. ASSUME NEW i \in DOMAIN g
        PROVE  \/ i \in DOMAIN h /\ g[i] = h[i]
               \/ g[i].kind # "result" /\ (g[i].kind = "response" => g[i].of = m)
    BY <1>2, <1>3, <1>8
  <2>2. QED BY <1>9, <2>1 DEF Grown
<1>11. Sound(g)
  BY <1>6, <1>10 DEF Sound, Grown
<1>12. QED BY <1>10, <1>11 DEF g, f, us, x

\* A history that has grown by a new response keeps the invariant.
LEMMA PreparedKept ==
    ASSUME ShapeInv, ResultsInv, AgreesInv, OrderInv, KeepsSettled, records' = records,
           NEW b, Sound(b), Carried(history, b), Sound(history'), Grown(b, history', made + 1)
    PROVE  HistoryKept
<1>1. PICK h, g, m : h = history /\ g = history' /\ m = made + 1
  OBVIOUS
<1>2. Sound(h) /\ Sound(g) /\ Carried(h, b) /\ InOrder(h) /\ Grown(b, g, m)
  BY <1>1 DEF ShapeInv, OrderInv
<1>3. InOrder(b)
  BY <1>2, CarriedOrder
<1>4. /\ \A i \in DOMAIN b : b[i].kind = "result" =>
            \E p \in DOMAIN h : h[p].kind = "result" /\ b[i].via = h[p].via
      /\ \A i \in DOMAIN b : First(b[i]) => i \in DOMAIN h /\ b[i] = h[i]
      /\ \A i \in DOMAIN h : h[i].kind = "result" => i \in DOMAIN b /\ b[i] = h[i]
  BY <1>2, CarriedResults
<1>5. \A i \in DOMAIN g : g[i].kind = "result" => i \in DOMAIN b /\ g[i] = b[i]
  BY <1>2 DEF Grown
<1>6. ASSUME NEW i \in DOMAIN g, g[i].kind = "result" PROVE Settled(g[i].via)
  <2>1. PICK p \in DOMAIN h : h[p].kind = "result" /\ g[i].via = h[p].via
    BY <1>4, <1>5, <1>6
  <2>2. QED BY <1>1, <2>1 DEF ResultsInv
<1>7. ResultsInv'
  <2>1. SUFFICES ASSUME NEW i \in DOMAIN history', history'[i].kind = "result"
                 PROVE  Settled(history[i].via)'
    BY DEF ResultsInv
  <2>2. Settled(g[i].via)'
    BY <1>1, <1>6, <2>1 DEF KeepsSettled
  <2>3. QED BY <1>1, <2>2 DEF Settled
<1>8. AgreesInv'
  <2>1. SUFFICES ASSUME NEW i \in DOMAIN g, First(g[i]), records[g[i].of].phase # "none"
                 PROVE  g[i].how = records[g[i].of].status
    BY <1>1 DEF AgreesInv
  <2>2. i \in DOMAIN h /\ g[i] = h[i]
    BY <1>4, <1>5, <2>1 DEF First, Own
  <2>3. QED BY <1>1, <2>1, <2>2 DEF AgreesInv
<1>9. InOrder(g)
  <2>0. DOMAIN b = 1..Len(b) /\ Len(b) \in Nat /\ made \in Nat
    BY MadeResponses DEF Sound
  <2>1. ASSUME NEW i \in DOMAIN g, Own(g[i])
        PROVE  /\ g[i].call # 1 => \E j \in 1..i - 1 : First(g[j]) /\ g[j].of = g[i].of
               /\ \A k \in DOMAIN g : IsResponse(g, k, g[i].of) => k < i
    <3>1. i \in DOMAIN b /\ g[i] = b[i]
      BY <1>5, <2>1 DEF Own
    <3>2. g[i].of # m
      <4>1. Settled(g[i].via) /\ g[i].of = g[i].via
        BY <1>6, <2>1 DEF Own
      <4>2. g[i].of \in 1..made
        BY <4>1 DEF Settled
      <4>3. QED BY <1>1, <2>0, <4>2
    <3>3. ASSUME NEW k \in DOMAIN g, IsResponse(g, k, g[i].of) PROVE k \in DOMAIN b /\ IsResponse(b, k, b[i].of)
      BY <1>2, <3>1, <3>2, <3>3 DEF Grown, IsResponse
    <3>4. \A j \in 1..i - 1 : g[j] = b[j]
      BY <1>2, <2>0, <3>1 DEF Grown
    <3>5. QED BY <1>3, <2>1, <3>1, <3>3, <3>4 DEF InOrder
  <2>2. QED BY <2>1 DEF InOrder
<1>10. OrderInv'
  BY <1>1, <1>9 DEF OrderInv
<1>11. KeepsLinks
  <2>1. SUFFICES ASSUME NEW v, Linked(v) PROVE Linked(v)'
    BY DEF KeepsLinks
  <2>2. PICK i \in DOMAIN h : h[i].kind = "result" /\ h[i].of = v /\ h[i].call = 1 /\ h[i].via = v
    BY <1>1, <2>1 DEF Linked, IsResult
  <2>3. i \in DOMAIN g /\ g[i] = h[i]
    BY <1>2, <1>4, <2>2 DEF Grown
  <2>4. QED BY <1>1, <2>2, <2>3 DEF Linked, IsResult
<1>12. QED BY <1>7, <1>8, <1>10, <1>11 DEF HistoryKept

-----------------------------------------------------------------------------
(* A step of r keeps the invariant if it keeps the history and leaves its  *)
(* own turn and recovery in order.                                         *)
StartStep ==
    /\ started' \in [Responses -> Nat]
    /\ \A m \in Responses : records'[m].phase \in Unstarted =>
          records[m].phase \in Unstarted /\ started'[m] = started[m]

RecStep(r) == rec' \in [Runtimes -> Recoveries] /\ \A q \in Runtimes : q # r => rec'[q] = rec[q]

\* What IInv needs of a step of r, besides the history.
LEMMA Preserved ==
    ASSUME IInv, NEW r \in Runtimes, TurnStep(r), RecordStep(r), RecStep(r), StartStep,
           Sound(history'), calls' \in [Responses -> 0..MaxCalls], queued' \in Nat,
           HistoryKept, StageOK(turn[r])', RecOK(rec[r])'
    PROVE  IInv'
<1> USE DEF IInv
<1>1. ShapeInv'
  <2>1. made' \in 0..MaxResponses
    BY MadeResponses DEF TurnStep
  <2>2. QED BY <2>1 DEF ShapeInv, TurnStep, RecordStep, RecStep, StartStep
<1>2. StageInv'
  <2>1. KeepsLinks
    BY DEF HistoryKept
  <2>2. ASSUME NEW q \in Runtimes PROVE StageOK(turn[q])'
    <3>1. CASE q = r
      BY <3>1
    <3>2. CASE q # r
      BY <2>1, <3>2, OthersStage
    <3>3. QED BY <3>1, <3>2
  <2>3. QED BY <2>2 DEF StageInv
<1>3. OneHolder'
  BY HolderKept
<1>4. RecInv'
  <2>1. KeepsLinks
    BY DEF HistoryKept
  <2>2. ASSUME NEW q \in Runtimes PROVE RecOK(rec[q])'
    <3>1. CASE q = r
      BY <3>1
    <3>2. CASE q # r
      BY <2>1, <3>2, RecKept DEF RecStep
    <3>3. QED BY <3>1, <3>2
  <2>3. QED BY <2>2 DEF RecInv
<1>5. StartInv'
  <2>1. ASSUME NEW m \in Responses
        PROVE  /\ records'[m].phase \in Unstarted => started'[m] = 0
               /\ m > made' => records'[m].phase = "none"
    <3>1. records'[m].phase \in Unstarted => started'[m] = 0
      BY DEF StartStep, StartInv, Unstarted
    <3>2. ASSUME m > made' PROVE records'[m].phase = "none"
      <4>1. m \in Nat /\ made \in Nat /\ made' \in Nat /\ m > made
        BY <3>2, MadeResponses, ResponsesType DEF TurnStep
      <4>2. records[m].phase = "none"
        BY <4>1 DEF StartInv
      <4>3. turn[r].resp # m
        BY <4>1 DEF StageInv, StageOK
      <4>4. QED BY <4>2, <4>3 DEF RecordStep, Open
    <3>3. QED BY <3>1, <3>2
  <2>2. QED BY <2>1 DEF StartInv, Unstarted
<1>6. QED BY <1>1, <1>2, <1>3, <1>4, <1>5 DEF HistoryKept

\* Records that do not change.
LEMMA SameRecords ==
    ASSUME ShapeInv, NEW r \in Runtimes, records' = records, started' = started
    PROVE  RecordStep(r) /\ StartStep
BY DEF ShapeInv, RecordStep, StartStep

\* A turn that keeps or drops its response.
LEMMA PutStep ==
    ASSUME ShapeInv, NEW r \in Runtimes, NEW S, NEW m, Puts(r, S, m), made' = made,
           m \in {0, turn[r].resp}, (\A s \in S : s \notin Receiving) \/ (m = turn[r].resp /\ turn[r].stage \in Receiving)
    PROVE  TurnStep(r)
<1>1. made' \in made..MaxResponses
  BY DEF ShapeInv
<1>2. turn \in [Runtimes -> Actors]
  BY DEF ShapeInv
<1>3. /\ turn' \in [Runtimes -> Actors] /\ turn'[r].stage \in S /\ turn'[r].resp = m
      /\ \A q \in Runtimes : q # r => turn'[q] = turn[q]
  BY <1>2, PutsFacts
<1>4. QED BY <1>1, <1>3 DEF TurnStep

\* A quiet turn keeps or drops its response.
LEMMA QuietTurnStep ==
    ASSUME ShapeInv, NEW r \in Runtimes, QuietTurn(r), made' = made
    PROVE  TurnStep(r)
<1>1. CASE Rests(r)
  <2>1. \A s \in Resting : s \notin Receiving
    BY DEF Resting, Receiving
  <2>2. Puts(r, Resting, 0) /\ 0 \in {0, turn[r].resp}
    BY <1>1 DEF Rests
  <2>3. QED BY <2>1, <2>2, PutStep, Zenon
<1>2. CASE Puts(r, {turn[r].stage}, turn[r].resp)
  <2>1. PICK s, m : s = turn[r].stage /\ m = turn[r].resp
    OBVIOUS
  <2>2. Puts(r, {s}, m) /\ m \in {0, turn[r].resp}
    BY <1>2, <2>1
  <2>3. (\A k \in {s} : k \notin Receiving) \/ (m = turn[r].resp /\ turn[r].stage \in Receiving)
    BY <2>1
  <2>4. QED BY <2>2, <2>3, PutStep, Zenon
<1>3. CASE turn[r].stage \in {"created", "approval"} /\ Puts(r, {"starting"}, turn[r].resp)
  <2>1. PICK m : m = turn[r].resp
    OBVIOUS
  <2>2. Puts(r, {"starting"}, m) /\ m \in {0, turn[r].resp}
    BY <1>3, <2>1
  <2>3. \A k \in {"starting"} : k \notin Receiving
    BY DEF Receiving
  <2>4. QED BY <2>2, <2>3, PutStep, Zenon
<1>4. QED BY <1>1, <1>2, <1>3 DEF QuietTurn

\* A quiet turn stays in order.
LEMMA QuietStage ==
    ASSUME ShapeInv, StageInv, NEW r \in Runtimes, QuietTurn(r), made' = made, records' = records, KeepsLinks
    PROVE  StageOK(turn[r])'
<1>1. turn \in [Runtimes -> Actors] /\ made \in Nat
  BY MadeResponses DEF ShapeInv
<1>2. CASE Rests(r)
  <2>1. turn'[r].stage \in Resting /\ turn'[r].resp = 0
    BY <1>1, <1>2, PutsFacts DEF Rests
  <2>2. QED BY <1>1, <2>1 DEF StageOK, Resting
<1>3. CASE turn[r].stage \in {"created", "approval"} /\ Puts(r, {"starting"}, turn[r].resp)
  <2>1. turn'[r].stage = "starting" /\ turn'[r].resp = turn[r].resp
    BY <1>1, <1>3, PutsFacts
  <2>2. turn[r].resp \in 0..made /\ turn[r].resp # 0
    BY <1>3 DEF StageInv, StageOK
  <2>3. QED BY <2>1, <2>2 DEF StageOK
<1>4. CASE Puts(r, {turn[r].stage}, turn[r].resp)
  <2>1. PICK s, m : s = turn[r].stage /\ m = turn[r].resp
    OBVIOUS
  <2>2. turn'[r].stage = s /\ turn'[r].resp = m
    BY <1>1, <1>4, <2>1, PutsFacts
  <2>3. s \in {"cancelling", "delivered"} => Linked(m)'
    BY <2>1, Zenon DEF StageInv, StageOK, KeepsLinks
  <2>4. s \in {"cancelling", "delivered"} => Linked(turn[r].resp)'
    BY <2>2, <2>3 DEF Linked
  <2>5. StageOK(turn[r])
    BY DEF StageInv
  <2>6. QED BY <2>1, <2>2, <2>4, <2>5 DEF StageOK
<1>5. QED BY <1>2, <1>3, <1>4 DEF QuietTurn

\* A recovery that has listed the records, or is over, is well formed.
LEMMA ListedOK ==
    ASSUME ShapeInv, NEW next \in Nexts
    PROVE  Listed(next) \in Recoveries /\ NoRecovery \in Recoveries
<1>1. [m \in Responses |-> records[m].phase] \in [Responses -> Phases]
  BY DEF ShapeInv
<1>2. [m \in Responses |-> "none"] \in [Responses -> Phases]
  BY DEF Phases
<1>3. QED BY <1>1, <1>2 DEF Listed, NoRecovery, Recoveries, Nexts

\* A recovery that begins, ends or waits is in order.
LEMMA QuietRecOK ==
    ASSUME ShapeInv, StageInv, RecInv, NEW r \in Runtimes, QuietRec(r), records' = records, started' = started,
           KeepsLinks
    PROVE  RecStep(r) /\ RecOK(rec[r])'
<1>1. rec \in [Runtimes -> Recoveries]
  BY DEF ShapeInv
<1>2. CASE rec' = rec
  <2>1. RecOK(rec[r])'
    BY <1>2, SameRecords, RecKept
  <2>2. QED BY <1>1, <1>2, <2>1 DEF RecStep
<1>3. CASE rec' = [rec EXCEPT ![r] = NoRecovery]
  <2>1. NoRecovery \in Recoveries
    BY ListedOK DEF Nexts
  <2>2. RecStep(r) /\ rec'[r] = NoRecovery
    BY <1>1, <1>3, <2>1 DEF RecStep
  <2>3. QED BY <2>2 DEF RecOK, NoRecovery
<1>4. ASSUME NEW next \in Nexts, rec' = [rec EXCEPT ![r] = Listed(next)]
      PROVE  RecStep(r) /\ RecOK(rec[r])'
  <2>1. RecStep(r) /\ rec'[r] = Listed(next)
    BY <1>1, <1>4, ListedOK DEF RecStep
  <2>2. QED BY <2>1 DEF RecOK, Listed
<1>5. QED BY <1>2, <1>3, <1>4 DEF QuietRec

\* A step that leaves the records alone and lets only skipped calls be answered.
LEMMA CarriedStep ==
    ASSUME IInv, NEW r \in Runtimes, records' = records, started' = started, made' = made,
           calls' \in [Responses -> 0..MaxCalls], queued' \in Nat, Sound(history'), Carried(history, history'),
           QuietTurn(r), QuietRec(r)
    PROVE  IInv'
<1>1. ShapeInv /\ ResultsInv /\ AgreesInv /\ OrderInv /\ StageInv /\ OneHolder /\ RecInv /\ StartInv
  BY DEF IInv
<1>2. TurnStep(r) /\ RecordStep(r) /\ StartStep
  BY <1>1, QuietTurnStep, SameRecords
<1>3. KeepsSettled
  BY <1>1, <1>2, SettledKept
<1>4. HistoryKept /\ KeepsLinks
  BY <1>1, <1>3, CarriedKept DEF HistoryKept
<1>5. StageOK(turn[r])' /\ RecStep(r) /\ RecOK(rec[r])'
  BY <1>1, <1>4, QuietStage, QuietRecOK
<1>6. QED BY <1>2, <1>4, <1>5, Preserved

\* Quiet steps keep the invariant.
LEMMA QuietKept == ASSUME IInv, NEW r \in Runtimes, QuietStep(r) PROVE IInv'
<1>1. Sound(history') /\ Carried(history, history')
  BY CarriedSame DEF IInv, ShapeInv, QuietStep
<1>2. calls' \in [Responses -> 0..MaxCalls]
  BY DEF IInv, ShapeInv, QuietStep
<1>3. QED BY <1>1, <1>2, CarriedStep DEF QuietStep

-----------------------------------------------------------------------------
(* The actions, one after the other. *)

\* The response an actor holds was made.
LEMMA HeldResponse ==
    ASSUME ShapeInv, StageInv, NEW r \in Runtimes, turn[r].resp # 0
    PROVE  turn[r].resp \in 1..made /\ turn[r].resp \in Responses
<1>1. turn[r].resp \in 0..made
  BY DEF StageInv, StageOK
<1>2. QED BY <1>1, MadeResponses

\* The result at ResultAt is the first one of its response.
LEMMA ResultAtFirst ==
    ASSUME NEW m, Linked(m)
    PROVE  ResultAt(m) \in DOMAIN history /\ First(history[ResultAt(m)]) /\ history[ResultAt(m)].of = m
<1>1. \E i \in DOMAIN history : IsResult(history, i, m, 1) /\ history[i].via = m
  BY Zenon DEF Linked
<1>2. ResultAt(m) \in DOMAIN history /\ IsResult(history, ResultAt(m), m, 1) /\ history[ResultAt(m)].via = m
  BY <1>1, Zenon DEF ResultAt
<1>3. QED BY <1>2 DEF First, Own, IsResult

\* The other calls of a response that has its first result are answered.
LEMMA AnsweredCarried ==
    ASSUME ShapeInv, NEW m, Linked(m)
    PROVE  LET g == AnswerSkippedCalls(history, ResultAt(m)) IN Sound(g) /\ Carried(history, g)
<1>1. PICK h, p : h = history /\ p = ResultAt(m)
  OBVIOUS
<1>2. p \in DOMAIN h /\ First(h[p])
  BY <1>1, ResultAtFirst
<1>3. Sound(h) /\ calls \in [Responses -> 0..MaxCalls]
  BY <1>1 DEF ShapeInv
<1>4. Sound(AnswerSkippedCalls(h, p)) /\ Carried(h, AnswerSkippedCalls(h, p))
  BY <1>2, <1>3, FirstCarried, Zenon
<1>5. QED BY <1>1, <1>4

\* Completing a response carries the results.
LEMMA SavedAsCarried ==
    ASSUME ShapeInv, NEW m \in Responses
    PROVE  Sound(SavedAs(m, "Complete")) /\ Carried(history, SavedAs(m, "Complete"))
<1>1. PICK h, s : h = history /\ s = "Complete"
  OBVIOUS
<1>2. Sound(h) /\ Carried(h, h) /\ s \in Statuses \cup {"Streaming", "Complete"}
  BY <1>1, CarriedSame DEF ShapeInv
<1> DEFINE k == [i \in DOMAIN h |-> IF IsResponse(h, i, m) THEN Response(m, s) ELSE h[i]]
<1>3. Sound(k) /\ Carried(h, k)
  BY <1>2, SavedCarried, Zenon
<1>4. SavedAs(m, "Complete") = k
  BY <1>1, Zenon DEF SavedAs
<1>5. QED BY <1>1, <1>3, <1>4

\* Rolling back the streaming tip carries the results.
LEMMA TipCarried ==
    ASSUME ShapeInv, NEW m, TipIs(m)
    PROVE  Sound(Front(history)) /\ Carried(history, Front(history))
<1>1. PICK h : h = history
  OBVIOUS
<1>2. Sound(h) /\ h # <<>> /\ h[Len(h)].kind = "response"
  BY <1>1 DEF ShapeInv, TipIs, IsResponse
<1>3. Sound(Front(h)) /\ Carried(h, Front(h))
  BY <1>2, FrontCarried
<1>4. QED BY <1>1, <1>3

\* A response that is being received has no execution record.
LEMMA StreamingResponse ==
    ASSUME ShapeInv, StageInv, NEW r \in Runtimes, turn[r].stage \in {"streaming", "cancelling", "completed"}
    PROVE  /\ turn[r].resp \in 1..made /\ turn[r].resp \in Responses
           /\ records[turn[r].resp].phase = "none"
<1>1. turn[r].resp # 0 /\ records[turn[r].resp].phase = "none"
  BY DEF StageInv, StageOK
<1>2. QED BY <1>1, HeldResponse

\* The ends of a stream without calls, and of a sweep.
LEMMA StreamActions ==
    ASSUME IInv, NEW r \in Runtimes, SweepDone(r) \/ CompleteText(r) \/ StreamFail(r) \/ CancelStream(r)
    PROVE  IInv'
<1>1. ShapeInv /\ OrderInv /\ StageInv /\ queued \in Nat /\ calls \in [Responses -> 0..MaxCalls] /\ Sound(history)
  BY DEF IInv, ShapeInv
<1>2. CASE SweepDone(r)
  <2>1. Sound(history') /\ Carried(history, history')
    <3>1. CASE history' = history
      BY <1>1, <3>1, CarriedSame
    <3>2. CASE history' = RecoverInterruptedStream(history)
      BY <1>1, <3>2, RecoveredCarried
    <3>3. QED BY <1>2, <3>1, <3>2 DEF SweepDone
  <2>2. QuietTurn(r) /\ QuietRec(r)
    BY <1>1, <1>2, FinishQuiet DEF SweepDone, QuietRec
  <2>3. QED BY <1>1, <1>2, <2>1, <2>2, CarriedStep DEF SweepDone
<1>3. CASE CompleteText(r)
  <2>1. Resp(r) \in Responses
    BY <1>1, <1>3, StreamingResponse DEF CompleteText, StreamHeld, At, Resp
  <2>2. Sound(history') /\ Carried(history, history')
    BY <1>1, <1>3, <2>1, SavedAsCarried DEF CompleteText
  <2>3. QuietTurn(r) /\ QuietRec(r)
    BY <1>1, <1>3, FinishQuiet DEF CompleteText, QuietRec
  <2>4. QED BY <1>1, <1>3, <2>2, <2>3, CarriedStep DEF CompleteText
<1>4. CASE StreamFail(r)
  <2>1. CASE TipIs(Resp(r)) /\ history' = Front(history) /\ FinishAndDrain(r)
    <3>1. Sound(history') /\ Carried(history, history')
      BY <1>1, <2>1, TipCarried
    <3>2. QuietTurn(r) /\ QuietRec(r)
      BY <1>1, <1>4, <2>1, FinishQuiet DEF StreamFail, QuietRec
    <3>3. QED BY <1>1, <1>4, <3>1, <3>2, CarriedStep DEF StreamFail
  <2>2. CASE turn' = [turn EXCEPT ![r].stage = "idle", ![r].resp = 0] /\ history' = history
    <3>1. QuietTurn(r)
      BY <1>1, <2>2, DroppedQuiet
    <3>2. QuietRec(r)
      BY <1>4 DEF StreamFail, QuietRec
    <3>3. QED BY <1>1, <1>4, <2>2, <3>1, <3>2, CarriedSame, CarriedStep DEF StreamFail
  <2>3. QED BY <1>4, <2>1, <2>2 DEF StreamFail
<1>5. CASE CancelStream(r)
  <2>1. Resp(r) \in Responses
    BY <1>1, <1>5, StreamingResponse DEF CancelStream, StreamHeld, At, Resp
  <2>2. Sound(history') /\ Carried(history, history')
    BY <1>1, <1>5, <2>1, SavedAsCarried, TipCarried DEF CancelStream
  <2>3. QuietTurn(r) /\ QuietRec(r)
    BY <1>1, <1>5, FinishQuiet DEF CancelStream, QuietRec
  <2>4. QED BY <1>1, <1>5, <2>2, <2>3, CarriedStep DEF CancelStream
<1>6. QED BY <1>2, <1>3, <1>4, <1>5

\* The actions that answer skipped calls at the end of a turn.
LEMMA AnswerActions ==
    ASSUME IInv, NEW r \in Runtimes, CancelAnswer(r) \/ FinalizeScriptTurn(r)
    PROVE  IInv'
<1>1. ShapeInv /\ OrderInv /\ StageInv /\ queued \in Nat /\ calls \in [Responses -> 0..MaxCalls] /\ Sound(history)
  BY DEF IInv, ShapeInv
<1>2. CASE CancelAnswer(r)
  <2>1. QuietTurn(r) /\ QuietRec(r)
    BY <1>1, <1>2, FinishQuiet DEF CancelAnswer, QuietRec
  <2>2. CASE history' = history
    BY <1>1, <1>2, <2>1, <2>2, CarriedSame, CarriedStep DEF CancelAnswer
  <2>3. CASE history' = LET h == AnswerSkippedCalls(history, ResultAt(Resp(r)))
                        IN  [i \in DOMAIN h |-> IF IsResponse(h, i, Resp(r))
                                                THEN Response(Resp(r), "Complete") ELSE h[i]]
    <3>1. PICK m, s : m = Resp(r) /\ s = "Complete"
      OBVIOUS
    <3>2. m \in Responses /\ Linked(m) /\ s \in Statuses \cup {"Streaming", "Complete"}
      BY <1>1, <1>2, <3>1, StreamingResponse DEF CancelAnswer, At, Resp, StageInv, StageOK
    <3>3. PICK h, g : h = history /\ g = AnswerSkippedCalls(history, ResultAt(m))
      OBVIOUS
    <3>4. Sound(g) /\ Carried(h, g)
      BY <1>1, <3>2, <3>3, AnsweredCarried
    <3> DEFINE k == [i \in DOMAIN g |-> IF IsResponse(g, i, m) THEN Response(m, s) ELSE g[i]]
    <3>5. Sound(k) /\ Carried(h, k)
      BY <3>2, <3>4, SavedCarried, Zenon
    <3>6. history' = k
      BY <2>3, <3>1, <3>3, Zenon
    <3>7. Sound(history') /\ Carried(history, history')
      BY <3>3, <3>5, <3>6
    <3>8. QED BY <1>1, <1>2, <2>1, <3>7, CarriedStep DEF CancelAnswer
  <2>4. QED BY <1>2, <2>2, <2>3 DEF CancelAnswer
<1>3. CASE FinalizeScriptTurn(r)
  <2>1. CASE FailScriptTurn(r)
    BY <1>1, <2>1, FailQuiet, QuietKept
  <2>2. CASE /\ history' = AnswerSkippedCalls(history, ResultAt(Resp(r)))
             /\ UNCHANGED <<calls, records, made, users, crashes, started>>
             /\ \/ FinishAndDrain(r) /\ UNCHANGED <<rec, queued, overtaken>>
                \/ EnsureLease(r, IF queued > 0 THEN "intercept" ELSE "continue", [Idle EXCEPT !.active = turn[r].active])
                \/ turn' = [turn EXCEPT ![r] = [Idle EXCEPT !.active = turn[r].active]] /\ UNCHANGED <<lease, rec, queued, overtaken>>
    <3>1. Sound(history') /\ Carried(history, history')
      <4>1. PICK m : m = Resp(r)
        OBVIOUS
      <4>2. Linked(m)
        BY <1>1, <1>3, <4>1 DEF FinalizeScriptTurn, At, Resp, StageInv, StageOK
      <4>3. history' = AnswerSkippedCalls(history, ResultAt(m))
        BY <2>2, <4>1
      <4>4. QED BY <1>1, <4>2, <4>3, AnsweredCarried
    <3>2. queued' \in Nat /\ QuietTurn(r) /\ QuietRec(r)
      <4>1. CASE FinishAndDrain(r) /\ UNCHANGED <<rec, queued, overtaken>>
        BY <1>1, <4>1, FinishQuiet DEF QuietRec
      <4>2. CASE EnsureLease(r, IF queued > 0 THEN "intercept" ELSE "continue", [Idle EXCEPT !.active = turn[r].active])
        <5> DEFINE next == IF queued > 0 THEN "intercept" ELSE "continue"
        <5>1. next \in Nexts \ {"none", "sweep"}
          BY DEF Nexts
        <5> HIDE DEF next
        <5>2. QED BY <1>1, <4>2, <5>1, EnsureQuiet, WaitingActor DEF next
      <4>3. CASE turn' = [turn EXCEPT ![r] = [Idle EXCEPT !.active = turn[r].active]] /\ UNCHANGED <<lease, rec, queued, overtaken>>
        <5>1. Rests(r)
          BY <1>1, <4>3, WaitingActor DEF Rests, Puts
        <5>2. QED BY <1>1, <4>3, <5>1 DEF QuietRec, QuietTurn
      <4>4. QED BY <2>2, <4>1, <4>2, <4>3
    <3>3. QED BY <1>1, <2>2, <3>1, <3>2, CarriedStep
  <2>3. QED BY <1>3, <2>1, <2>2, Zenon DEF FinalizeScriptTurn
<1>4. QED BY <1>2, <1>3

\* The record a recovery looks at is that of a response.
LEMMA DueResponse ==
    ASSUME ShapeInv, NEW r \in Runtimes, rec[r].todo # {}
    PROVE  Due(r) \in Responses
<1>1. rec[r].todo \subseteq Nat /\ rec[r].todo \subseteq Responses
  BY ResponsesType DEF ShapeInv, Recoveries
<1>2. \E n \in rec[r].todo : \A k \in rec[r].todo : n <= k
  BY <1>1, LeastOne, Zenon
<1>3. Min(rec[r].todo) \in rec[r].todo
  BY <1>2, Zenon DEF Min
<1>4. QED BY <1>1, <1>3 DEF Due

\* A recovery goes on with the same record.
LEMMA RecoverToFacts ==
    ASSUME ShapeInv, NEW r \in Runtimes, NEW at \in {"look", "append", "skip"}, RecoverTo(r, at)
    PROVE  /\ RecStep(r) /\ rec'[r].at = at
           /\ rec'[r].todo = rec[r].todo /\ rec'[r].seen = rec[r].seen
<1> DEFINE y == [rec[r] EXCEPT !.at = at]
<1>1. rec \in [Runtimes -> Recoveries] /\ rec[r] \in Recoveries
  BY DEF ShapeInv
<1>2. y \in Recoveries /\ y.at = at /\ y.todo = rec[r].todo /\ y.seen = rec[r].seen
  BY <1>1 DEF Recoveries
<1>3. rec' = [rec EXCEPT ![r] = y]
  BY DEF RecoverTo
<1> HIDE DEF y
<1>4. QED BY <1>1, <1>2, <1>3 DEF RecStep

\* A recovery goes on to the next record.
LEMMA RecoverNextFacts ==
    ASSUME ShapeInv, NEW r \in Runtimes, RecoverNext(r)
    PROVE  RecStep(r) /\ rec'[r].at = "look" /\ rec'[r].seen = rec[r].seen
<1> DEFINE y == [rec[r] EXCEPT !.todo = rec[r].todo \ {Due(r)}, !.at = "look"]
<1>1. rec \in [Runtimes -> Recoveries] /\ rec[r] \in Recoveries
  BY DEF ShapeInv
<1>2. y \in Recoveries /\ y.at = "look" /\ y.seen = rec[r].seen
  BY <1>1 DEF Recoveries
<1>3. rec' = [rec EXCEPT ![r] = y]
  BY DEF RecoverNext
<1> HIDE DEF y
<1>4. QED BY <1>1, <1>2, <1>3 DEF RecStep

\* The recovery of r goes on to look at a record, to append, or to answer the skipped calls.
LEMMA RecoverOK ==
    ASSUME ShapeInv, StageInv, RecInv, NEW r \in Runtimes, RecordStep(r), rec'[r].seen = rec[r].seen,
           NEW m, m = Due(r),
           \/ rec'[r].at = "look"
           \/ rec'[r].at = "append" /\ rec'[r].todo = rec[r].todo /\ records'[m].phase = "Finished"
           \/ rec'[r].at = "skip" /\ rec'[r].todo = rec[r].todo /\ Linked(m)'
    PROVE  RecOK(rec[r])'
<1>1. \A k \in Responses : rec'[r].seen[k] = "Finished" => records'[k].phase = "Finished"
  BY FinishedKept DEF KeepsFinished, RecInv, RecOK
<1>2. rec'[r].todo = rec[r].todo => Min(rec'[r].todo) = m
  BY DEF Due
<1>3. rec'[r].todo # {} /\ rec'[r].at = "append" => records'[Min(rec'[r].todo)].phase = "Finished"
  BY <1>2
<1>4. rec'[r].todo # {} /\ rec'[r].at = "skip" => Linked(Min(rec[r].todo))'
  BY <1>2 DEF Linked
<1>5. QED BY <1>1, <1>3, <1>4 DEF RecOK

\* Records that are open may change.
OpenStep ==
    /\ records' \in [Responses -> [phase : Phases, status : Statuses]]
    /\ \A m \in Responses : records'[m] # records[m] => records[m].phase \in Open /\ records'[m].phase # "none"

\* A change of open records is one a step may make.
LEMMA OpenRecordStep == ASSUME OpenStep, NEW r \in Runtimes PROVE RecordStep(r)
BY DEF OpenStep, RecordStep

\* require_completion_transition accepts outcomes of open records only.
LEMMA CompletionOpens ==
    ASSUME NEW phase, NEW status, CompletionAllowed(phase, status)
    PROVE  phase \in Open /\ status \in Statuses
BY DEF CompletionAllowed, Open, Statuses

\* ExecutionStore::finish changes one open record.
LEMMA FinishedStep ==
    ASSUME ShapeInv, NEW m \in Responses, NEW status, CompletionAllowed(records[m].phase, status),
           records' = Finished(m, status), started' = started
    PROVE  OpenStep /\ StartStep /\ records'[m].phase = "Finished"
<1> DEFINE x == [phase |-> "Finished", status |-> status]
<1>1. records[m].phase \in Open /\ status \in Statuses
  BY CompletionOpens
<1>2. x \in [phase : Phases, status : Statuses] /\ x.phase = "Finished"
  BY <1>1 DEF Phases
<1>3. records' = [records EXCEPT ![m] = x] /\ records \in [Responses -> [phase : Phases, status : Statuses]]
  BY DEF Finished, ShapeInv
<1> HIDE DEF x
<1>4. OpenStep /\ records'[m].phase = "Finished"
  BY <1>1, <1>2, <1>3 DEF OpenStep
<1>5. StartStep
  BY <1>2, <1>3 DEF StartStep, ShapeInv, Unstarted
<1>6. QED BY <1>4, <1>5

\* A turn that does not change stays in order when open records change.
LEMMA SameStage ==
    ASSUME ShapeInv, StageInv, NEW r \in Runtimes, turn' = turn, made' = made, OpenStep, KeepsLinks
    PROVE  StageOK(turn[r])'
<1>1. PICK x : x = turn[r]
  OBVIOUS
<1>2. StageOK(x) /\ KeepsFinished /\ turn'[r] = x
  BY <1>1, OpenRecordStep, FinishedKept DEF StageInv
<1>3. x.resp # 0 => x.resp \in Responses
  BY <1>1, HeldResponse
<1>4. x.stage \in {"streaming", "cancelling", "completed"} => records'[x.resp].phase = "none"
  BY <1>2, <1>3 DEF StageOK, OpenStep, Open
<1>5. x.stage \in {"ended", "finished"} => records'[x.resp].phase = "Finished"
  BY <1>2, <1>3 DEF StageOK, KeepsFinished
<1>6. x.stage \in {"cancelling", "delivered"} => Linked(x.resp)'
  BY <1>2, Zenon DEF StageOK, KeepsLinks
<1>7. x.stage \in {"cancelling", "delivered"} => Linked(turn[r].resp)'
  BY <1>2, <1>6 DEF Linked
<1>8. QED BY <1>2, <1>4, <1>5, <1>7 DEF StageOK

\* A step of r that leaves its turn alone.
LEMMA RecoveryStep ==
    ASSUME IInv, NEW r \in Runtimes, UNCHANGED <<turn, calls, queued, made>>, OpenStep, StartStep,
           RecStep(r), HistoryKept, Sound(history'), RecOK(rec[r])'
    PROVE  IInv'
<1>1. ShapeInv /\ StageInv /\ turn \in [Runtimes -> Actors] /\ queued \in Nat /\ calls \in [Responses -> 0..MaxCalls]
      /\ made \in 0..MaxResponses
  BY DEF IInv, ShapeInv
<1>2. TurnStep(r) /\ RecordStep(r)
  BY <1>1, OpenRecordStep DEF TurnStep
<1>3. StageOK(turn[r])'
  BY <1>1, SameStage DEF HistoryKept
<1>4. QED BY <1>1, <1>2, <1>3, Preserved

\* A history that does not change keeps the invariant.
LEMMA SameHistory ==
    ASSUME IInv, KeepsSettled, history' = history
    PROVE  HistoryKept /\ Sound(history')
<1>1. Sound(history') /\ Carried(history, history')
  BY CarriedSame DEF IInv, ShapeInv
<1>2. QED BY <1>1, CarriedKept DEF IInv

\* A change of open records leaves settled responses alone.
LEMMA OpenSettled ==
    ASSUME IInv, NEW r \in Runtimes, UNCHANGED <<turn, made>>, OpenStep
    PROVE  KeepsSettled
<1>1. TurnStep(r)
  BY DEF TurnStep, IInv, ShapeInv
<1>2. QED BY <1>1, OpenRecordStep, SettledKept DEF IInv

\* The result of a finished record is delivered, once.
LEMMA DeliveredKept ==
    ASSUME IInv, KeepsSettled, NEW m \in Responses, records[m].phase = "Finished", records' = records,
           history' = AppendResult(m)
    PROVE  HistoryKept /\ Sound(history') /\ Linked(m)'
<1>1. CASE Linked(m)
  <2>1. history' = history
    BY <1>1 DEF AppendResult
  <2>2. HistoryKept /\ Sound(history')
    BY <2>1, SameHistory
  <2>3. QED BY <1>1, <2>2 DEF HistoryKept, KeepsLinks
<1>2. CASE ~Linked(m)
  <2>1. PICK s : s = records[m].status
    OBVIOUS
  <2>2. history' = Append(history, Result(m, 1, m, s))
    BY <1>2, <2>1 DEF AppendResult
  <2>3. m \in 1..made /\ s \in Statuses
    BY <2>1, MadeResponses, ResponsesType DEF IInv, ShapeInv, StartInv
  <2>4. Settled(m)'
    BY <2>3 DEF Settled, KeepsSettled
  <2>5. QED BY <2>1, <2>2, <2>3, <2>4, AppendedKept DEF IInv
<1>3. QED BY <1>1, <1>2

\* The steps of recover_session_executions.
LEMMA RecoverActions ==
    ASSUME IInv, NEW r \in Runtimes, RecoverRecord(r) \/ RecoverResult(r) \/ RecoverSkipped(r)
    PROVE  IInv'
<1>1. ShapeInv /\ StageInv /\ RecInv /\ ResultsInv /\ AgreesInv /\ OrderInv
  BY DEF IInv
<1>2. rec[r].todo # {}
  BY DEF RecoverRecord, RecoverResult, RecoverSkipped, Recovering
<1>3. PICK m : m = Due(r)
  OBVIOUS
<1>4. m \in Responses
  BY <1>1, <1>2, <1>3, DueResponse
<1>5. CASE RecoverFail(r)
  BY <1>1, <1>5, FailQuiet, QuietKept
<1>6. CASE RecoverRecord(r) /\ ~RecoverFail(r)
  <2>1. history' = history /\ UNCHANGED <<turn, calls, queued, made, started>>
    BY <1>6 DEF RecoverRecord, durable
  <2>2. CASE RecoverNext(r) /\ records' = records
    <3>1. OpenStep /\ StartStep
      BY <1>1, <2>1, <2>2 DEF OpenStep, StartStep, ShapeInv
    <3>2. KeepsSettled
      BY <2>1, <3>1, OpenSettled
    <3>3. HistoryKept /\ Sound(history')
      BY <2>1, <3>2, SameHistory
    <3>4. RecStep(r) /\ RecOK(rec[r])'
      BY <1>1, <1>3, <2>2, <3>1, OpenRecordStep, RecoverNextFacts, RecoverOK
    <3>5. QED BY <2>1, <3>1, <3>3, <3>4, RecoveryStep
  <2>3. CASE Linked(m) /\ RecoverTo(r, "skip") /\ records' = records
    <3>1. OpenStep /\ StartStep
      BY <1>1, <2>1, <2>3 DEF OpenStep, StartStep, ShapeInv
    <3>2. KeepsSettled
      BY <2>1, <3>1, OpenSettled
    <3>3. HistoryKept /\ Sound(history')
      BY <2>1, <3>2, SameHistory
    <3>4. Linked(m)'
      BY <2>3, <3>3 DEF HistoryKept, KeepsLinks
    <3>5. RecStep(r) /\ rec'[r].at = "skip" /\ rec'[r].todo = rec[r].todo /\ rec'[r].seen = rec[r].seen
      BY <1>1, <2>3, RecoverToFacts
    <3>6. RecOK(rec[r])'
      BY <1>1, <1>3, <3>1, <3>4, <3>5, OpenRecordStep, RecoverOK
    <3>7. QED BY <2>1, <3>1, <3>3, <3>5, <3>6, RecoveryStep
  <2>4. CASE /\ RecoverTo(r, "append") /\ OpenStep /\ StartStep /\ records'[m].phase = "Finished"
    <3>2. KeepsSettled
      BY <2>1, <2>4, OpenSettled
    <3>3. HistoryKept /\ Sound(history')
      BY <2>1, <3>2, SameHistory
    <3>5. RecStep(r) /\ rec'[r].at = "append" /\ rec'[r].todo = rec[r].todo /\ rec'[r].seen = rec[r].seen
      BY <1>1, <2>4, RecoverToFacts
    <3>6. RecOK(rec[r])'
      BY <1>1, <1>3, <2>4, <3>5, OpenRecordStep, RecoverOK
    <3>7. QED BY <2>1, <2>4, <3>3, <3>5, <3>6, RecoveryStep
  <2>5. CASE rec[r].seen[m] = "Finished" /\ RecoverTo(r, "append") /\ records' = records
    <3>1. OpenStep /\ StartStep
      BY <1>1, <2>1, <2>5 DEF OpenStep, StartStep, ShapeInv
    <3>2. records'[m].phase = "Finished"
      BY <1>1, <1>4, <2>5 DEF RecInv, RecOK
    <3>3. QED BY <2>4, <2>5, <3>1, <3>2
  <2>6. CASE /\ CompletionAllowed(records[m].phase, InterruptedOutcome(rec[r].seen[m]))
             /\ records' = Finished(m, InterruptedOutcome(rec[r].seen[m])) /\ RecoverTo(r, "append")
    <3>1. PICK status : status = InterruptedOutcome(rec[r].seen[m])
      OBVIOUS
    <3>2. OpenStep /\ StartStep /\ records'[m].phase = "Finished"
      BY <1>1, <1>4, <2>1, <2>6, <3>1, FinishedStep
    <3>3. QED BY <2>4, <2>6, <3>2
  <2>7. QED BY <1>3, <1>6, <2>2, <2>3, <2>5, <2>6, Zenon DEF RecoverRecord, durable
<1>7. CASE RecoverResult(r) /\ ~RecoverFail(r)
  <2>1. /\ history' = AppendResult(m) /\ RecoverTo(r, "skip") /\ rec[r].at = "append"
        /\ UNCHANGED <<turn, calls, records, queued, made, started>>
    BY <1>3, <1>7 DEF RecoverResult, Recovering
  <2>2. OpenStep /\ StartStep
    BY <1>1, <2>1 DEF OpenStep, StartStep, ShapeInv
  <2>3. KeepsSettled
    BY <2>1, <2>2, OpenSettled
  <2>4. records[m].phase = "Finished"
    BY <1>1, <1>2, <1>3, <2>1 DEF RecInv, RecOK, Due
  <2>5. HistoryKept /\ Sound(history') /\ Linked(m)'
    BY <1>4, <2>1, <2>3, <2>4, DeliveredKept DEF IInv
  <2>6. RecStep(r) /\ rec'[r].at = "skip" /\ rec'[r].todo = rec[r].todo /\ rec'[r].seen = rec[r].seen
    BY <1>1, <2>1, RecoverToFacts
  <2>7. RecOK(rec[r])'
    BY <1>1, <1>3, <2>2, <2>5, <2>6, OpenRecordStep, RecoverOK
  <2>8. QED BY <2>1, <2>2, <2>5, <2>6, <2>7, RecoveryStep
<1>8. CASE RecoverSkipped(r) /\ ~RecoverFail(r)
  <2>1. /\ history' = AnswerSkippedCalls(history, ResultAt(m)) /\ RecoverNext(r) /\ rec[r].at = "skip"
        /\ UNCHANGED <<turn, calls, records, queued, made, started>>
    BY <1>3, <1>8 DEF RecoverSkipped, Recovering
  <2>2. OpenStep /\ StartStep
    BY <1>1, <2>1 DEF OpenStep, StartStep, ShapeInv
  <2>3. KeepsSettled
    BY <2>1, <2>2, OpenSettled
  <2>4. Linked(m)
    BY <1>1, <1>2, <1>3, <2>1, Zenon DEF RecInv, RecOK, Due
  <2>5. Sound(history') /\ Carried(history, history')
    BY <1>1, <2>1, <2>4, AnsweredCarried
  <2>6. HistoryKept
    BY <1>1, <2>3, <2>5, CarriedKept
  <2>7. RecStep(r) /\ RecOK(rec[r])'
    BY <1>1, <1>3, <2>1, <2>2, OpenRecordStep, RecoverNextFacts, RecoverOK
  <2>8. QED BY <2>1, <2>2, <2>5, <2>6, <2>7, RecoveryStep
<1>9. QED BY <1>5, <1>6, <1>7, <1>8

\* A step of r that goes on to the stage s with its response.
LEMMA ToStep ==
    ASSUME ShapeInv, NEW r \in Runtimes, NEW s \in Stages \ Receiving, To(r, s), made' = made
    PROVE  TurnStep(r) /\ turn'[r].stage = s /\ turn'[r].resp = turn[r].resp
<1>1. PICK m : m = turn[r].resp
  OBVIOUS
<1>2. turn \in [Runtimes -> Actors]
  BY DEF ShapeInv
<1>3. Puts(r, {s}, m)
  BY <1>1, <1>2, ToPuts
<1>4. turn'[r].stage = s /\ turn'[r].resp = m
  BY <1>2, <1>3, PutsFacts
<1>5. m \in {0, turn[r].resp} /\ \A k \in {s} : k \notin Receiving
  BY <1>1
<1>6. TurnStep(r)
  BY <1>3, <1>5, PutStep, Zenon
<1>7. QED BY <1>1, <1>4, <1>6

\* A step of r that leaves history and recoveries alone.
LEMMA RecordedStep ==
    ASSUME IInv, NEW r \in Runtimes, UNCHANGED <<rec, history, calls, queued, made>>, TurnStep(r), RecordStep(r),
           StartStep, StageOK(turn[r])'
    PROVE  IInv'
<1>1. ShapeInv /\ StageInv /\ RecInv /\ queued' \in Nat /\ calls' \in [Responses -> 0..MaxCalls]
  BY DEF IInv, ShapeInv
<1>2. KeepsSettled
  BY <1>1, SettledKept
<1>3. HistoryKept /\ Sound(history')
  BY <1>2, SameHistory
<1>4. RecOK(rec[r])'
  BY <1>1, <1>3, RecKept DEF HistoryKept
<1>5. RecStep(r)
  BY <1>1 DEF RecStep, ShapeInv
<1>6. QED BY <1>1, <1>3, <1>4, <1>5, Preserved

\* finish of a script that never started.
LEMMA FinishPreparedKept ==
    ASSUME IInv, NEW r \in Runtimes, NEW status, turn[r].stage \in {"created", "approval"}, FinishPrepared(r, status)
    PROVE  IInv'
<1>1. ShapeInv /\ StageInv
  BY DEF IInv
<1>2. CASE FailScriptTurn(r)
  BY <1>1, <1>2, FailQuiet, QuietKept
<1>3. CASE /\ CompletionAllowed(records[Resp(r)].phase, status) /\ records' = Finished(Resp(r), status)
           /\ To(r, "finished") /\ UNCHANGED <<rec, history, calls, queued, made, started>>
  <2>1. PICK m : m = turn[r].resp
    OBVIOUS
  <2>2. m # 0
    BY <1>1, <2>1 DEF StageInv, StageOK
  <2>3. m \in Responses /\ m \in 1..made
    BY <1>1, <2>1, <2>2, HeldResponse
  <2>4. OpenStep /\ StartStep /\ records'[m].phase = "Finished"
    BY <1>1, <1>3, <2>1, <2>3, FinishedStep DEF Resp
  <2>5. TurnStep(r) /\ turn'[r].stage = "finished" /\ turn'[r].resp = m
    BY <1>1, <1>3, <2>1, ToStep DEF Stages, Receiving
  <2>6. StageOK(turn[r])'
    BY <1>3, <2>3, <2>4, <2>5, MadeResponses DEF StageOK
  <2>7. QED BY <1>3, <2>4, <2>5, <2>6, OpenRecordStep, RecordedStep
<1>4. QED BY <1>2, <1>3 DEF FinishPrepared

\* The steps from a completed response to the decision about its script.
LEMMA PreparedActions ==
    ASSUME IInv, NEW r \in Runtimes, CreateRecord(r) \/ Refuse(r) \/ Prompt(r) \/ EndPending(r)
    PROVE  IInv'
<1>1. ShapeInv /\ StageInv /\ made \in Nat
  BY MadeResponses DEF IInv
<1>2. CASE Refuse(r) \/ EndPending(r)
  BY <1>2, FinishPreparedKept DEF Refuse, EndPending, At
<1>3. CASE FailScriptTurn(r)
  BY <1>1, <1>3, FailQuiet, QuietKept
<1>4. PICK m : m = turn[r].resp
  OBVIOUS
<1>5. records \in [Responses -> [phase : Phases, status : Statuses]] /\ started \in [Responses -> Nat]
  BY <1>1 DEF ShapeInv
<1>6. CASE CreateRecord(r) /\ ~FailScriptTurn(r)
  <2>1. /\ turn[r].stage = "completed" /\ To(r, "created")
        /\ records' = [records EXCEPT ![m] = [phase |-> "Prepared", status |-> "none"]]
        /\ UNCHANGED <<rec, history, calls, queued, made, started>>
    BY <1>4, <1>6 DEF CreateRecord, At, Resp
  <2>2. m \in Responses /\ m \in 1..made /\ records[m].phase = "none"
    BY <1>1, <1>4, <2>1, StreamingResponse
  <2>3. TurnStep(r) /\ turn'[r].stage = "created" /\ turn'[r].resp = m
    BY <1>1, <1>4, <2>1, ToStep DEF Stages, Receiving
  <2> DEFINE x == [phase |-> "Prepared", status |-> "none"]
  <2>4. x \in [phase : Phases, status : Statuses] /\ x.phase = "Prepared"
    BY DEF Phases, Statuses
  <2> HIDE DEF x
  <2>5. records' = [records EXCEPT ![m] = x]
    BY <2>1 DEF x
  <2>6. RecordStep(r)
    BY <1>4, <1>5, <2>1, <2>4, <2>5 DEF RecordStep
  <2>7. StartStep
    BY <1>5, <2>1, <2>2, <2>4, <2>5 DEF StartStep, Unstarted
  <2>8. StageOK(turn[r])'
    BY <1>1, <2>1, <2>2, <2>3 DEF StageOK
  <2>9. QED BY <2>1, <2>3, <2>6, <2>7, <2>8, RecordedStep
<1>7. CASE Prompt(r) /\ ~FailScriptTurn(r)
  <2>1. /\ turn[r].stage = "created" /\ To(r, "approval") /\ records[m].phase = "Prepared"
        /\ records' = [records EXCEPT ![m].phase = "AwaitingApproval"]
        /\ UNCHANGED <<rec, history, calls, queued, made, started>>
    BY <1>4, <1>7 DEF Prompt, At, Resp
  <2>2. m # 0
    BY <1>1, <1>4, <2>1 DEF StageInv, StageOK
  <2>3. m \in Responses /\ m \in 1..made
    BY <1>1, <1>4, <2>2, HeldResponse
  <2>4. TurnStep(r) /\ turn'[r].stage = "approval" /\ turn'[r].resp = m
    BY <1>1, <1>4, <2>1, ToStep DEF Stages, Receiving
  <2>5. OpenStep /\ StartStep
    BY <1>5, <2>1, <2>3 DEF OpenStep, Open, StartStep, Unstarted, Phases
  <2>6. StageOK(turn[r])'
    BY <1>1, <2>1, <2>3, <2>4 DEF StageOK
  <2>7. QED BY <2>1, <2>4, <2>5, <2>6, OpenRecordStep, RecordedStep
<1>8. QED BY <1>2, <1>3, <1>6, <1>7

\* The steps of the script task.
LEMMA ScriptActions ==
    ASSUME IInv, NEW r \in Runtimes, MarkRunning(r) \/ FinishScript(r)
    PROVE  IInv'
<1>1. ShapeInv /\ StageInv /\ made \in Nat
  BY MadeResponses DEF IInv
<1>2. PICK m : m = turn[r].resp
  OBVIOUS
<1>3. UNCHANGED <<rec, history, calls, queued, made>> /\ turn[r].stage \in {"starting", "running"}
  BY DEF MarkRunning, FinishScript
<1>4. m # 0
  BY <1>1, <1>2, <1>3 DEF StageInv, StageOK
<1>5. m \in Responses /\ m \in 1..made
  BY <1>1, <1>2, <1>4, HeldResponse
<1>6. CASE To(r, "broken") /\ UNCHANGED <<records, started>>
  <2>1. TurnStep(r) /\ turn'[r].stage = "broken" /\ turn'[r].resp = m
    BY <1>1, <1>2, <1>3, <1>6, ToStep DEF Stages, Receiving
  <2>2. StageOK(turn[r])'
    BY <1>1, <1>3, <1>5, <2>1 DEF StageOK
  <2>3. RecordStep(r) /\ StartStep
    BY <1>1, <1>6, SameRecords
  <2>4. QED BY <1>3, <2>1, <2>2, <2>3, RecordedStep
<1>7. CASE /\ records[m].phase \in {"Prepared", "AwaitingApproval"} /\ To(r, "running")
           /\ records' = [records EXCEPT ![m].phase = "Running"]
           /\ started' = [started EXCEPT ![m] = @ + 1]
  <2>1. TurnStep(r) /\ turn'[r].stage = "running" /\ turn'[r].resp = m
    BY <1>1, <1>2, <1>3, <1>7, ToStep DEF Stages, Receiving
  <2>2. StageOK(turn[r])'
    BY <1>1, <1>3, <1>5, <2>1 DEF StageOK
  <2>3. records \in [Responses -> [phase : Phases, status : Statuses]] /\ started \in [Responses -> Nat]
    BY <1>1 DEF ShapeInv
  <2>4. OpenStep
    BY <1>5, <1>7, <2>3 DEF OpenStep, Open, Phases
  <2>5. StartStep
    BY <1>5, <1>7, <2>3 DEF StartStep, Unstarted
  <2>6. QED BY <1>3, <2>1, <2>2, <2>4, <2>5, OpenRecordStep, RecordedStep
<1>8. ASSUME NEW status, CompletionAllowed(records[m].phase, status), records' = Finished(m, status),
             To(r, "ended"), started' = started
      PROVE  IInv'
  <2>1. TurnStep(r) /\ turn'[r].stage = "ended" /\ turn'[r].resp = m
    BY <1>1, <1>2, <1>3, <1>8, ToStep DEF Stages, Receiving
  <2>2. OpenStep /\ StartStep /\ records'[m].phase = "Finished"
    BY <1>1, <1>5, <1>8, FinishedStep
  <2>3. StageOK(turn[r])'
    BY <1>1, <1>3, <1>5, <2>1, <2>2 DEF StageOK
  <2>4. QED BY <1>3, <2>1, <2>2, <2>3, OpenRecordStep, RecordedStep
<1>9. CASE MarkRunning(r)
  BY <1>2, <1>6, <1>7, <1>9 DEF MarkRunning, Startable, Resp
<1>10. CASE FinishScript(r)
  BY <1>2, <1>6, <1>8, <1>10 DEF FinishScript, Resp
<1>11. QED BY <1>9, <1>10

\* finalize_script_turn links the result.
LEMMA DeliverResultKept == ASSUME IInv, NEW r \in Runtimes, DeliverResult(r) PROVE IInv'
<1>1. ShapeInv /\ StageInv /\ RecInv /\ made \in Nat
  BY MadeResponses DEF IInv
<1>2. CASE FailScriptTurn(r)
  BY <1>1, <1>2, FailQuiet, QuietKept
<1>3. CASE ~FailScriptTurn(r)
  <2>1. PICK m : m = turn[r].resp
    OBVIOUS
  <2>2. /\ turn[r].stage \in {"ended", "finished"} /\ To(r, "delivered") /\ history' = AppendResult(m)
        /\ UNCHANGED <<rec, calls, records, queued, made, started>>
    BY <1>3, <2>1 DEF DeliverResult, At, Resp
  <2>3. m # 0 /\ records[m].phase = "Finished"
    BY <1>1, <2>1, <2>2 DEF StageInv, StageOK
  <2>4. m \in Responses /\ m \in 1..made
    BY <1>1, <2>1, <2>3, HeldResponse
  <2>5. TurnStep(r) /\ turn'[r].stage = "delivered" /\ turn'[r].resp = m
    BY <1>1, <2>1, <2>2, ToStep DEF Stages, Receiving
  <2>6. RecordStep(r) /\ StartStep
    BY <1>1, <2>2, SameRecords
  <2>7. KeepsSettled
    BY <1>1, <2>5, <2>6, SettledKept
  <2>8. HistoryKept /\ Sound(history') /\ Linked(m)'
    BY <2>2, <2>3, <2>4, <2>7, DeliveredKept
  <2>9. Linked(turn[r].resp)'
    BY <2>5, <2>8 DEF Linked
  <2>10. StageOK(turn[r])'
    BY <1>1, <2>2, <2>4, <2>5, <2>9 DEF StageOK
  <2>11. RecStep(r) /\ RecOK(rec[r])'
    BY <1>1, <2>2, <2>6, <2>8, RecKept DEF HistoryKept, RecStep, ShapeInv
  <2>12. queued' \in Nat /\ calls' \in [Responses -> 0..MaxCalls]
    BY <1>1, <2>2 DEF ShapeInv
  <2>13. QED BY <2>5, <2>6, <2>8, <2>10, <2>11, <2>12, Preserved
<1>4. QED BY <1>2, <1>3

\* A stream that ends, or is cancelled, with script calls.
LEMMA CallsActions == ASSUME IInv, NEW r \in Runtimes, CompleteCalls(r) \/ CancelCalls(r) PROVE IInv'
<1>1. ShapeInv /\ StageInv /\ RecInv /\ OneHolder /\ ResultsInv /\ AgreesInv /\ OrderInv /\ made \in Nat
  BY MadeResponses DEF IInv
<1>2. PICK m : m = turn[r].resp
  OBVIOUS
<1>3. turn[r].stage = "streaming" /\ UNCHANGED <<rec, records, queued, made, started>>
  BY DEF CompleteCalls, CancelCalls, StreamHeld, At
<1>4. m \in 1..made /\ m \in Responses /\ records[m].phase = "none" /\ m # 0
  BY <1>1, <1>2, <1>3, StreamingResponse
<1>5. queued' \in Nat /\ calls' \in [Responses -> 0..MaxCalls]
  <2>1. PICK k \in 1..MaxCalls : calls' = [calls EXCEPT ![m] = k]
    BY <1>2 DEF CompleteCalls, CancelCalls, Resp
  <2>2. k \in 0..MaxCalls
    BY ResponsesType
  <2>3. QED BY <1>1, <1>3, <2>1, <2>2 DEF ShapeInv
<1>6. RecordStep(r) /\ StartStep
  BY <1>1, <1>3, SameRecords
<1>7. CASE CompleteCalls(r)
  <2>1. Puts(r, {"completed"}, m)
    <3> DEFINE x == [turn[r] EXCEPT !.stage = "completed", !.live = FALSE]
    <3>1. turn' = [turn EXCEPT ![r] = x]
      BY <1>7 DEF CompleteCalls
    <3>2. turn[r] \in Actors /\ "completed" \in Stages
      BY <1>1 DEF ShapeInv, Stages
    <3>3. x \in Actors /\ x.stage = "completed" /\ x.resp = turn[r].resp
      BY <3>2 DEF Actors
    <3> HIDE DEF x
    <3>4. QED BY <1>2, <3>1, <3>3 DEF Puts
  <2>2. TurnStep(r)
    <3>1. m \in {0, turn[r].resp} /\ m = turn[r].resp /\ turn[r].stage \in Receiving
      BY <1>2, <1>3 DEF Receiving
    <3>2. QED BY <1>1, <1>3, <2>1, <3>1, PutStep, Zenon
  <2>3. turn'[r].stage = "completed" /\ turn'[r].resp = m
    BY <1>1, <2>1, PutsFacts DEF ShapeInv
  <2>4. Sound(history') /\ Carried(history, history')
    BY <1>1, <1>2, <1>4, <1>7, SavedAsCarried DEF CompleteCalls, Resp
  <2>5. KeepsSettled
    BY <1>1, <1>6, <2>2, SettledKept
  <2>6. HistoryKept
    BY <1>1, <2>4, <2>5, CarriedKept
  <2>7. StageOK(turn[r])'
    BY <1>1, <1>3, <1>4, <2>3 DEF StageOK
  <2>8. RecStep(r) /\ RecOK(rec[r])'
    BY <1>1, <1>3, <1>6, <2>6, RecKept DEF HistoryKept, RecStep, ShapeInv
  <2>9. QED BY <1>5, <1>6, <2>2, <2>4, <2>6, <2>7, <2>8, Preserved
<1>8. CASE CancelCalls(r)
  <2>1. TurnStep(r) /\ turn'[r].stage = "cancelling" /\ turn'[r].resp = m
    BY <1>1, <1>2, <1>3, <1>8, ToStep DEF CancelCalls, Stages, Receiving
  <2>2. KeepsSettled
    BY <1>1, <1>6, <2>1, SettledKept
  <2>3. Settled(m)'
    <3>1. \A q \in Runtimes : turn'[q].resp = m => q = r
      BY <1>1, <1>2, <1>4, <2>1 DEF OneHolder, TurnStep
    <3>2. \A q \in Runtimes : turn'[q].resp = m => turn'[q].stage \notin Receiving
      BY <2>1, <3>1 DEF Receiving
    <3>3. QED BY <1>3, <1>4, <3>2 DEF Settled
  <2>4. HistoryKept /\ Sound(history') /\ Linked(m)'
    <3>1. PICK s : s = "Cancelled"
      OBVIOUS
    <3>2. s \in Statuses /\ history' = Append(history, Result(m, 1, m, s))
      BY <1>2, <1>8, <3>1 DEF CancelCalls, Resp, Statuses
    <3>3. records'[m].phase = "none"
      BY <1>3, <1>4
    <3>4. QED BY <1>1, <1>4, <2>2, <2>3, <3>2, <3>3, AppendedKept
  <2>5. Linked(turn[r].resp)'
    BY <2>1, <2>4 DEF Linked
  <2>6. StageOK(turn[r])'
    BY <1>1, <1>3, <1>4, <2>1, <2>5 DEF StageOK
  <2>7. RecStep(r) /\ RecOK(rec[r])'
    BY <1>1, <1>3, <1>6, <2>4, RecKept DEF HistoryKept, RecStep, ShapeInv
  <2>8. QED BY <1>5, <1>6, <2>1, <2>4, <2>6, <2>7, Preserved
<1>9. QED BY <1>7, <1>8

\* A preparation links the next response.
LEMMA PrepareKept == ASSUME IInv, NEW r \in Runtimes, Prepare(r) PROVE IInv'
<1>1. ShapeInv /\ StageInv /\ RecInv /\ OneHolder /\ ResultsInv /\ AgreesInv /\ OrderInv /\ StartInv /\ made \in Nat
      /\ turn \in [Runtimes -> Actors] /\ queued \in Nat /\ Sound(history) /\ calls \in [Responses -> 0..MaxCalls]
  BY MadeResponses DEF IInv, ShapeInv
<1>2. PICK m : m = made + 1
  OBVIOUS
<1>3. made < MaxResponses /\ made' = m /\ UNCHANGED <<rec, calls, records, started>>
  BY <1>2 DEF Prepare
<1>4. m \in Responses /\ m \in Nat /\ m \in 0..MaxResponses /\ records[m].phase = "none" /\ m \in made..MaxResponses
  BY <1>1, <1>2, <1>3, ResponsesType DEF StartInv
<1>5. turn[r].take \in Nat /\ queued' \in Nat
  <2>1. turn[r].take \in Nat
    BY <1>1 DEF Actors
  <2>2. queued' = IF turn[r].take > queued THEN 0 ELSE queued - turn[r].take
    BY DEF Prepare
  <2>3. QED BY <1>1, <2>1, <2>2
<1>6. Puts(r, {"streaming"}, m)
  <2> DEFINE x == [Idle EXCEPT !.stage = "streaming", !.resp = m, !.live = TRUE, !.active = TRUE]
  <2>1. turn' = [turn EXCEPT ![r] = x]
    BY <1>2 DEF Prepare
  <2>2. Idle \in Actors /\ "streaming" \in Stages
    BY IdleActors DEF Stages
  <2>3. x \in Actors /\ x.stage = "streaming" /\ x.resp = m
    BY <1>4, <2>2 DEF Actors
  <2> HIDE DEF x
  <2>4. QED BY <2>1, <2>3 DEF Puts
<1>7. /\ turn' \in [Runtimes -> Actors] /\ turn'[r].stage = "streaming" /\ turn'[r].resp = m
      /\ \A q \in Runtimes : q # r => turn'[q] = turn[q]
  BY <1>1, <1>6, PutsFacts
<1>8. TurnStep(r)
  BY <1>2, <1>3, <1>4, <1>7 DEF TurnStep
<1>9. RecordStep(r) /\ StartStep
  BY <1>1, <1>3, SameRecords
<1>10. KeepsSettled
  BY <1>1, <1>8, <1>9, SettledKept
<1>11. PICK b : b = IF ClaimsItself(r) \/ Owns(r) THEN RecoverInterruptedStream(history) ELSE history
  OBVIOUS
<1>12. PICK sent : sent = IF turn[r].origin = "send" THEN 1 ELSE turn[r].take
  OBVIOUS
<1>13. sent \in Nat
  BY <1>5, <1>12
<1>14. history' = b \o [i \in 1..sent |-> User] \o <<Response(m, "Streaming")>>
  BY <1>2, <1>11, <1>12, Zenon DEF Prepare
<1>15. Sound(b) /\ Carried(history, b)
  BY <1>1, <1>11, RecoveredCarried, CarriedSame
<1>16. Sound(history') /\ Grown(b, history', m)
  BY <1>4, <1>13, <1>14, <1>15, PreparedGrown
<1>17. HistoryKept
  BY <1>1, <1>2, <1>3, <1>10, <1>15, <1>16, PreparedKept
<1>18. StageOK(turn[r])'
  <2>1. m # 0 /\ m \in 0..m
    BY <1>1, <1>2
  <2>2. QED BY <1>3, <1>4, <1>7, <2>1 DEF StageOK
<1>19. RecStep(r) /\ RecOK(rec[r])'
  BY <1>1, <1>3, <1>9, <1>17, RecKept DEF HistoryKept, RecStep, ShapeInv
<1>20. QED BY <1>1, <1>3, <1>5, <1>8, <1>9, <1>16, <1>17, <1>18, <1>19, Preserved

-----------------------------------------------------------------------------
(* The theorems. *)
\* The invariant holds initially ...
LEMMA InitHolds == Init => IInv
<1> SUFFICES ASSUME Init PROVE IInv
  OBVIOUS
<1>1. ShapeInv
  <2>1. turn \in [Runtimes -> Actors]
    BY IdleActors DEF Init
  <2>2. rec \in [Runtimes -> Recoveries]
    <3>1. [m \in Responses |-> "none"] \in [Responses -> Phases]
      BY DEF Phases
    <3>2. NoRecovery \in Recoveries
      BY <3>1 DEF NoRecovery, Recoveries
    <3>3. QED BY <3>2 DEF Init
  <2>3. Sound(history)
    BY DEF Init, Sound
  <2>4. NoRecord \in [phase : Phases, status : Statuses]
    BY DEF NoRecord, Phases, Statuses
  <2>5. /\ calls \in [Responses -> 0..MaxCalls] /\ records \in [Responses -> [phase : Phases, status : Statuses]]
        /\ made \in 0..MaxResponses /\ queued \in Nat /\ started \in [Responses -> Nat]
    BY <2>4, ResponsesType DEF Init
  <2>6. QED BY <2>1, <2>2, <2>3, <2>5 DEF ShapeInv
<1>2. ResultsInv /\ AgreesInv /\ OrderInv
  BY DEF Init, ResultsInv, AgreesInv, OrderInv, InOrder
<1>3. \A r \in Runtimes : turn[r].stage \in Resting /\ turn[r].resp = 0
  BY IdleActors DEF Init
<1>4. StageInv /\ OneHolder
  BY <1>3 DEF Init, StageInv, StageOK, OneHolder, Resting
<1>5. RecInv
  BY DEF Init, RecInv, RecOK, NoRecovery
<1>6. StartInv
  BY DEF Init, StartInv, NoRecord
<1>7. QED BY <1>1, <1>2, <1>4, <1>5, <1>6 DEF IInv

\* ... and every step keeps it.
LEMMA StepHolds == IInv /\ [Next]_vars => IInv'
<1> SUFFICES ASSUME IInv, [Next]_vars PROVE IInv'
  OBVIOUS
<1>1. CASE Expire \/ UNCHANGED vars
  <2>1. UNCHANGED <<turn, rec, history, calls, records, queued, made, started>>
    BY <1>1 DEF Expire, vars, durable
  <2>2. QED BY <2>1 DEF IInv, ShapeInv, ResultsInv, Settled, AgreesInv, OrderInv, StageInv, StageOK, Linked,
                        OneHolder, RecInv, RecOK, StartInv
<1>2. ASSUME NEW r \in Runtimes, Step(r) PROVE IInv'
  <2>1. CASE \/ Send(r) \/ PrepareFail(r) \/ RecoverDone(r) \/ StreamLost(r) \/ ScriptBroken(r)
             \/ StartPrepared(r) \/ CancelTurn(r) \/ DiscardQueue(r) \/ Renew(r)
             \/ Crash(r) \/ Shutdown(r) \/ Start(r)
    BY <2>1, QuietActions, QuietKept DEF IInv
  <2>2. CASE SweepDone(r) \/ CompleteText(r) \/ StreamFail(r) \/ CancelStream(r)
    BY <2>2, StreamActions
  <2>3. CASE CancelAnswer(r) \/ FinalizeScriptTurn(r)
    BY <2>3, AnswerActions
  <2>4. CASE RecoverRecord(r) \/ RecoverResult(r) \/ RecoverSkipped(r)
    BY <2>4, RecoverActions
  <2>5. CASE CreateRecord(r) \/ Refuse(r) \/ Prompt(r) \/ EndPending(r)
    BY <2>5, PreparedActions
  <2>6. CASE MarkRunning(r) \/ FinishScript(r)
    BY <2>6, ScriptActions
  <2>7. CASE DeliverResult(r)
    BY <2>7, DeliverResultKept
  <2>8. CASE CompleteCalls(r) \/ CancelCalls(r)
    BY <2>8, CallsActions
  <2>9. CASE Prepare(r)
    BY <2>9, PrepareKept
  <2>10. QED BY <1>2, <2>1, <2>2, <2>3, <2>4, <2>5, <2>6, <2>7, <2>8, <2>9 DEF Step
<1>3. QED BY <1>1, <1>2 DEF Next

\* The inductive invariant holds in every reachable state, for any number of processes, responses
\* and calls, through crashes, takeovers and refused writes.
THEOREM Invariance == Spec => []IInv
BY InitHolds, StepHolds, PTL DEF Spec

\* A response with a linked result has a finished record that agrees with it, or none.
LEMMA LinkedSettled ==
    ASSUME IInv, NEW m, Linked(m)
    PROVE  /\ records[m].phase \in {"none", "Finished"}
           /\ records[m].phase # "none" => history[ResultAt(m)].how = records[m].status
<1>1. PICK p : p = ResultAt(m)
  OBVIOUS
<1>2. p \in DOMAIN history /\ First(history[p]) /\ history[p].of = m
  BY <1>1, ResultAtFirst
<1>3. history[p].kind = "result" /\ history[p].via = m
  BY <1>2 DEF First, Own
<1>4. Settled(m)
  BY <1>2, <1>3 DEF IInv, ResultsInv
<1>5. QED BY <1>1, <1>2, <1>4 DEF IInv, AgreesInv, Settled

\* A response with an execution record whose result is in the history has finished, and the result
\* says what the record says: finalize_script_turn and recover_session_executions never disagree.
THEOREM DeliveredAgreesCorrect == Spec => []DeliveredAgrees
<1>1. IInv => DeliveredAgrees
  BY LinkedSettled DEF DeliveredAgrees
<1>2. QED BY <1>1, Invariance, PTL

\* mark_running starts a script at most once, and never when its call is already answered: not
\* even for an approval given to a process that lost the session and claimed it again.
THEOREM StartedUnansweredCorrect == Spec => StartedUnanswered
<1> DEFINE A == \A m \in Responses : started'[m] > started[m] => started[m] = 0 /\ ~Linked(m)
<1>1. ASSUME IInv, [Next]_vars PROVE [A]_vars
  <2>1. CASE \E r \in Runtimes : MarkRunning(r) /\ Startable(Resp(r)) /\ started' = [started EXCEPT ![Resp(r)] = @ + 1]
    <3>1. PICK r \in Runtimes : Startable(Resp(r)) /\ started' = [started EXCEPT ![Resp(r)] = @ + 1]
      BY <2>1
    <3>2. SUFFICES ASSUME NEW m \in Responses, started'[m] > started[m]
                   PROVE  started[m] = 0 /\ ~Linked(m)
      OBVIOUS
    <3>3. started \in [Responses -> Nat]
      BY <1>1 DEF IInv, ShapeInv
    <3>4. m = Resp(r)
      BY <3>1, <3>2, <3>3
    <3>5. records[m].phase \in {"Prepared", "AwaitingApproval"}
      BY <3>1, <3>4 DEF Startable
    <3>6. started[m] = 0
      BY <1>1, <3>5 DEF IInv, StartInv
    <3>7. ~Linked(m)
      BY <1>1, <3>5, LinkedSettled
    <3>8. QED BY <3>6, <3>7
  <2>2. CASE started' = started
    <3>1. started \in [Responses -> Nat]
      BY <1>1 DEF IInv, ShapeInv
    <3>2. QED BY <2>2, <3>1
  <2>3. ASSUME NEW r \in Runtimes, Step(r)
        PROVE  \/ started' = started
               \/ MarkRunning(r) /\ Startable(Resp(r)) /\ started' = [started EXCEPT ![Resp(r)] = @ + 1]
    <3>1. CASE MarkRunning(r)
      BY <3>1 DEF MarkRunning
    <3>2. CASE ~MarkRunning(r)
      BY <2>3, <3>2 DEF Step, Send, Prepare, PrepareFail, RecoverRecord, RecoverResult, RecoverSkipped,
            RecoverDone, SweepDone, CompleteText, CompleteCalls, StreamFail, StreamLost, CancelStream,
            CancelCalls, CancelAnswer, CancelTurn, DiscardQueue, CreateRecord, Refuse, Prompt, StartPrepared,
            EndPending, FinishScript, ScriptBroken, DeliverResult, FinalizeScriptTurn, Renew, Crash, Shutdown,
            Start, FailScriptTurn, RecoverFail, FinishPrepared
    <3>3. QED BY <3>1, <3>2
  <2>4. CASE Expire \/ UNCHANGED vars
    BY <2>2, <2>4 DEF Expire, vars
  <2>5. QED BY <1>1, <2>1, <2>2, <2>3, <2>4 DEF Next
<1>2. StartedUnanswered <=> [][A]_vars
  BY DEF StartedUnanswered
<1>3. QED BY <1>1, <1>2, Invariance, PTL DEF Spec

-----------------------------------------------------------------------------
(* The answers of the calls. *)

\* The result at position i of h answers call i - a of the response at position a, right behind it.
InBlock(h, c, a, i) ==
    /\ a < i /\ h[a].kind = "response"
    /\ h[i].of = h[a].of /\ h[i].via = h[a].of /\ h[i].call = i - a /\ i - a <= c[h[a].of]
    /\ i - a > 1 => h[i].how = "Cancelled"
    /\ \A j \in a + 1..i : h[j].kind = "result"
InPlace(h, c) == \A i \in DOMAIN h : h[i].kind = "result" => \E a \in DOMAIN h : InBlock(h, c, a, i)

\* The responses are in the order of their numbers, none of them beyond n.
Numbered(h, n) ==
    \A i \in DOMAIN h : h[i].kind = "response" =>
        /\ h[i].of \in 1..n
        /\ \A j \in DOMAIN h : h[j].kind = "response" /\ i < j => h[i].of < h[j].of

\* Every call of the response at position i has its result.
Answered(h, c, i) == \A n \in 1..c[h[i].of] : i + n \in DOMAIN h /\ h[i + n].kind = "result"

\* The response at position i has a record, those in R, or a first result.
Begun(h, R, i) == h[i].of \in R \/ (i + 1 \in DOMAIN h /\ h[i + 1].kind = "result")

\* A response that has begun to be answered is answered, or the tip with at most one result.
AtTip(h, i) == Len(h) = i \/ (Len(h) = i + 1 /\ h[i + 1].kind = "result")
Closed(h, c, R) ==
    \A i \in DOMAIN h : h[i].kind = "response" /\ Begun(h, R, i) => Answered(h, c, i) \/ AtTip(h, i)

\* Only results follow a streaming response.
RollsBack(h) ==
    \A i \in DOMAIN h : h[i].how = "Streaming" =>
        h[i].kind = "response" /\ \A j \in DOMAIN h : j > i => h[j].kind = "result"

Tidy(h, c, R, n) ==
    /\ h \in Seq(Items) /\ n \in Nat
    /\ InPlace(h, c) /\ Numbered(h, n) /\ Closed(h, c, R) /\ RollsBack(h)

\* Nothing is open: every response that has begun to be answered is answered, and none streams.
Full(h, c, R) ==
    /\ \A i \in DOMAIN h : h[i].kind = "response" /\ Begun(h, R, i) => Answered(h, c, i)
    /\ \A i \in DOMAIN h : h[i].how # "Streaming"

\* The positions of a sequence.
LEMMA Positions ==
    ASSUME NEW h \in Seq(Items)
    PROVE  /\ Len(h) \in Nat /\ DOMAIN h = 1..Len(h) /\ (h = <<>> <=> Len(h) = 0)
           /\ \A i \in DOMAIN h : h[i] \in Items
  OBVIOUS

\* A result belongs to one response.
LEMMA BlockUnique ==
    ASSUME NEW h \in Seq(Items), NEW c, NEW i \in DOMAIN h, NEW a \in DOMAIN h, NEW b \in DOMAIN h,
           InBlock(h, c, a, i), InBlock(h, c, b, i)
    PROVE  a = b
<1>1. a \in Nat /\ b \in Nat /\ i \in Nat
  BY Positions
<1>2. ASSUME NEW x \in DOMAIN h, NEW y \in DOMAIN h, InBlock(h, c, x, i), InBlock(h, c, y, i), x < y
      PROVE  FALSE
  <2>1. x \in Nat /\ y \in Nat /\ y \in x + 1..i
    BY <1>1, <1>2, Positions DEF InBlock
  <2>2. QED BY <1>2, <2>1 DEF InBlock
<1>3. QED BY <1>1, <1>2

\* A response stands at one position.
LEMMA ResponseUnique ==
    ASSUME NEW h \in Seq(Items), NEW n, Numbered(h, n), NEW i \in DOMAIN h, NEW j \in DOMAIN h,
           h[i].kind = "response", h[j].kind = "response", h[i].of = h[j].of
    PROVE  i = j
<1>1. i \in Nat /\ j \in Nat
  BY Positions
<1>2. h[i].of \in Int
  <2>1. h[i] \in Items
    OBVIOUS
  <2>2. QED BY <2>1, ResponsesType DEF Items
<1>3. ~(i < j) /\ ~(j < i)
  BY <1>2 DEF Numbered
<1>4. QED BY <1>1, <1>3

\* A result of the response at position a is in its block.
LEMMA BlockOf ==
    ASSUME NEW h, NEW c, NEW R, NEW n, Tidy(h, c, R, n), NEW a \in DOMAIN h, NEW i \in DOMAIN h,
           h[a].kind = "response", h[i].kind = "result", h[i].of = h[a].of
    PROVE  InBlock(h, c, a, i)
<1>1. PICK b \in DOMAIN h : InBlock(h, c, b, i)
  BY DEF Tidy, InPlace
<1>2. b = a
  BY <1>1, ResponseUnique DEF Tidy, InBlock
<1>3. QED BY <1>1, <1>2

\* The result right behind a response is its first.
LEMMA FirstOf ==
    ASSUME NEW h, NEW c, NEW R, NEW n, Tidy(h, c, R, n), NEW a \in DOMAIN h,
           h[a].kind = "response", a + 1 \in DOMAIN h, h[a + 1].kind = "result"
    PROVE  InBlock(h, c, a, a + 1)
<1>1. PICK b \in DOMAIN h : InBlock(h, c, b, a + 1)
  BY DEF Tidy, InPlace
<1>2. a \in Nat /\ b \in Nat
  BY Positions DEF Tidy
<1>3. b = a
  <2>1. CASE b < a
    <3>1. a \in b + 1..a + 1
      BY <1>2, <2>1
    <3>2. QED BY <1>1, <3>1 DEF InBlock
  <2>2. QED BY <1>1, <1>2, <2>1 DEF InBlock
<1>4. QED BY <1>1, <1>3

\* The members of 2..k in order.
LEMMA OrderedTail ==
    ASSUME NEW k \in Nat, k # 0
    PROVE  Cardinality(2..k) = k - 1 /\ \A n \in 1..k - 1 : Ordered(2..k)[n] = n + 1
<1> DEFINE S == 2..k
           s == Ordered(S)
           K == k - 1
<1>1. 2 \in Int /\ k \in Int
  OBVIOUS
<1>2. Cardinality(2..k) = IF 2 > k THEN 0 ELSE k - 2 + 1
  BY <1>1, FS_Interval, Zenon
<1>3. Cardinality(S) = K /\ K \in Nat
  BY <1>2
<1>4. \E t : Listing(S, t)
  <2>1. S \in SUBSET (1..k)
    OBVIOUS
  <2>2. QED BY <2>1, ListingOf, Zenon
<1>5. s \in [1..Cardinality(S) -> S] /\ \A i, j \in 1..Cardinality(S) : i < j => s[i] < s[j]
  BY <1>4, Zenon DEF Ordered, Listing
<1>6. /\ \A i \in 1..K : s[i] \in 2..k
      /\ \A i, j \in 1..K : i < j => s[i] < s[j]
  <2>1. s \in [1..K -> S] /\ \A i, j \in 1..K : i < j => s[i] < s[j]
    BY <1>3, <1>5, Zenon
  <2>2. QED BY <2>1
<1> HIDE DEF s, K
<1>7. \A i \in 1..K : s[i] >= i + 1
  <2> DEFINE Bad == {i \in 1..K : ~(s[i] >= i + 1)}
  <2>1. SUFFICES ASSUME Bad # {} PROVE FALSE
    OBVIOUS
  <2>2. Bad \subseteq Nat
    BY <1>3
  <2>3. PICK i \in Bad : \A j \in Bad : i <= j
    BY <2>1, <2>2, LeastOne, Zenon
  <2>4. i \in 1..K /\ s[i] \in 2..k /\ ~(s[i] >= i + 1) /\ i # 1
    BY <1>6, <2>3
  <2>5. i - 1 \in 1..K /\ i - 1 \notin Bad
    BY <1>3, <2>3, <2>4
  <2>6. s[i - 1] >= i /\ s[i - 1] \in 2..k /\ s[i - 1] < s[i]
    BY <1>3, <1>6, <2>4, <2>5
  <2>7. QED BY <1>3, <2>4, <2>6
<1>8. \A i \in 1..K : s[i] <= i + 1
  <2> DEFINE Bad == {i \in 1..K : ~(s[i] <= i + 1)}
  <2>1. SUFFICES ASSUME Bad # {} PROVE FALSE
    OBVIOUS
  <2>2. Bad \subseteq Nat /\ \A i \in Bad : i <= K
    BY <1>3
  <2>3. PICK i \in Bad : \A j \in Bad : j <= i
    BY <1>3, <2>1, <2>2, GreatestOne, Zenon
  <2>4. i \in 1..K /\ s[i] \in 2..k /\ ~(s[i] <= i + 1) /\ i # K
    BY <1>3, <1>6, <2>3 DEF K
  <2>5. i + 1 \in 1..K /\ i + 1 \notin Bad
    BY <1>3, <2>3, <2>4
  <2>6. s[i + 1] <= i + 2 /\ s[i + 1] \in 2..k /\ s[i] < s[i + 1]
    BY <1>3, <1>6, <2>4, <2>5
  <2>7. QED BY <1>3, <2>4, <2>6
<1>9. ASSUME NEW i \in 1..K PROVE s[i] = i + 1
  BY <1>3, <1>6, <1>7, <1>8
<1>10. QED BY <1>3, <1>9 DEF K, s

-----------------------------------------------------------------------------
(* What the operations on the history do to the answers in it. *)

\* Rolling back a response at the tip.
LEMMA FrontTidy ==
    ASSUME NEW h, NEW c, NEW R, NEW n, Tidy(h, c, R, n), h # <<>>, h[Len(h)].kind = "response"
    PROVE  LET g == Front(h)
           IN  /\ Tidy(g, c, R, n)
               /\ \A i \in DOMAIN g : h[i].kind = "response" /\ Begun(g, R, i) => Answered(g, c, i)
               /\ Len(g) = Len(h) - 1 /\ \A i \in DOMAIN g : i \in DOMAIN h /\ g[i] = h[i]
<1> DEFINE L == Len(h)
           g == Front(h)
<1>1. h \in Seq(Items) /\ DOMAIN h = 1..L /\ L \in Nat \ {0} /\ n \in Nat
  BY DEF Tidy
<1>2. /\ g \in Seq(Items) /\ Len(g) = L - 1 /\ DOMAIN g = 1..L - 1
      /\ \A i \in 1..L - 1 : g[i] = h[i]
  BY <1>1 DEF Front
<1>3. h[L].kind = "response"
  OBVIOUS
<1> HIDE DEF L, g
<1>4. \A i \in DOMAIN g : i \in DOMAIN h /\ g[i] = h[i]
  BY <1>1, <1>2
<1>5. InPlace(g, c)
  <2>1. SUFFICES ASSUME NEW i \in DOMAIN g, g[i].kind = "result" PROVE \E a \in DOMAIN g : InBlock(g, c, a, i)
    BY DEF InPlace
  <2>2. PICK a \in DOMAIN h : InBlock(h, c, a, i)
    BY <1>4, <2>1 DEF Tidy, InPlace
  <2>3. a \in DOMAIN g
    BY <1>1, <1>2, <2>1, <2>2 DEF InBlock
  <2>4. \A j \in a + 1..i : j \in DOMAIN g
    BY <1>1, <1>2, <2>1, <2>3
  <2>5. InBlock(g, c, a, i)
    BY <1>2, <2>1, <2>2, <2>3, <2>4 DEF InBlock
  <2> QED BY <2>3, <2>5
<1>6. Numbered(g, n)
  BY <1>4 DEF Tidy, Numbered
<1>7. RollsBack(g)
  BY <1>4 DEF Tidy, RollsBack
<1>8. ASSUME NEW i \in DOMAIN g, h[i].kind = "response", Begun(g, R, i) PROVE Answered(g, c, i)
  <2>1. i \in DOMAIN h /\ g[i] = h[i]
    BY <1>4
  <2>2. Begun(h, R, i)
    BY <1>4, <1>8, <2>1 DEF Begun
  <2>3. Answered(h, c, i) \/ AtTip(h, i)
    BY <1>8, <2>1, <2>2 DEF Tidy, Closed
  <2>4. Len(h) = L
    BY DEF L
  <2>5. ~AtTip(h, i)
    <3>1. i # L
      BY <1>1, <1>2
    <3>2. ~(L = i + 1 /\ h[i + 1].kind = "result")
      BY <1>3
    <3> QED BY <2>4, <3>1, <3>2 DEF AtTip
  <2>6. Answered(h, c, i)
    BY <2>3, <2>5
  <2>7. ASSUME NEW k \in 1..c[g[i].of] PROVE i + k \in DOMAIN g /\ g[i + k].kind = "result"
    <3>1. i + k \in DOMAIN h /\ h[i + k].kind = "result"
      BY <2>1, <2>6, <2>7 DEF Answered
    <3>2. i + k # L
      BY <1>3, <3>1
    <3> QED BY <1>1, <1>2, <3>1, <3>2
  <2> QED BY <2>7 DEF Answered
<1>9. Closed(g, c, R)
  BY <1>4, <1>8 DEF Closed
<1> QED BY <1>1, <1>2, <1>4, <1>5, <1>6, <1>7, <1>8, <1>9 DEF Tidy, g, L

\* Changing a response, but not into a streaming one.
LEMMA SavedTidy ==
    ASSUME NEW h, NEW c, NEW R, NEW n, Tidy(h, c, R, n), NEW g \in Seq(Items), DOMAIN g = DOMAIN h,
           \A i \in DOMAIN h : /\ g[i].kind = h[i].kind /\ g[i].of = h[i].of
                               /\ h[i].kind = "result" => g[i] = h[i]
                               /\ g[i].how = "Streaming" => h[i].how = "Streaming"
    PROVE  Tidy(g, c, R, n)
<1>1. h \in Seq(Items) /\ n \in Nat /\ Len(g) = Len(h)
  <2>1. h \in Seq(Items) /\ n \in Nat
    BY DEF Tidy
  <2>2. Len(h) \in Nat /\ Len(g) \in Nat /\ 1..Len(h) = 1..Len(g)
    BY <2>1
  <2> QED BY <2>1, <2>2
<1>2. InPlace(g, c)
  <2>1. SUFFICES ASSUME NEW i \in DOMAIN h, h[i].kind = "result" PROVE \E a \in DOMAIN h : InBlock(g, c, a, i)
    BY DEF InPlace
  <2>2. PICK a \in DOMAIN h : InBlock(h, c, a, i)
    BY <2>1 DEF Tidy, InPlace
  <2>3. \A j \in a + 1..i : j \in DOMAIN h
    BY <1>1
  <2>4. InBlock(g, c, a, i)
    BY <2>1, <2>2, <2>3 DEF InBlock
  <2> QED BY <2>4
<1>3. Numbered(g, n)
  BY DEF Tidy, Numbered
<1>4. RollsBack(g)
  BY DEF Tidy, RollsBack
<1>5. Closed(g, c, R)
  <2>1. SUFFICES ASSUME NEW i \in DOMAIN h, h[i].kind = "response", Begun(g, R, i)
                 PROVE  Answered(g, c, i) \/ AtTip(g, i)
    BY DEF Closed
  <2>2. Begun(h, R, i)
    BY <2>1 DEF Begun
  <2>3. Answered(h, c, i) \/ AtTip(h, i)
    BY <2>1, <2>2 DEF Tidy, Closed
  <2>4. Answered(h, c, i) => Answered(g, c, i)
    BY <2>1 DEF Answered
  <2>5. AtTip(h, i) => AtTip(g, i)
    <3>1. ASSUME Len(h) = i + 1 PROVE i + 1 \in DOMAIN h
      BY <1>1, <3>1
    <3> QED BY <1>1, <3>1 DEF AtTip
  <2> QED BY <2>3, <2>4, <2>5
<1> QED BY <1>1, <1>2, <1>3, <1>4, <1>5 DEF Tidy

\* Answering the call that ran, of the response at the tip.
LEMMA AppendedTidy ==
    ASSUME NEW h, NEW c, NEW R, NEW n, Tidy(h, c, R, n), NEW m, h # <<>>, IsResponse(h, Len(h), m),
           c[m] \in Nat \ {0}, NEW s, s # "Streaming", Result(m, 1, m, s) \in Items
    PROVE  Tidy(Append(h, Result(m, 1, m, s)), c, R, n)
<1> DEFINE L == Len(h)
           x == Result(m, 1, m, s)
           g == Append(h, x)
<1>1. h \in Seq(Items) /\ DOMAIN h = 1..L /\ L \in Nat \ {0} /\ n \in Nat
  BY DEF Tidy
<1>2. x.kind = "result" /\ x.of = m /\ x.via = m /\ x.call = 1 /\ x.how = s
  BY DEF Result
<1>3. h[L].kind = "response" /\ h[L].of = m
  BY DEF IsResponse
<1> HIDE DEF x, L
<1>4. /\ g \in Seq(Items) /\ Len(g) = L + 1 /\ DOMAIN g = 1..L + 1 /\ g[L + 1] = x
      /\ \A i \in 1..L : g[i] = h[i]
  BY <1>1 DEF x, L
<1> HIDE DEF g
<1>5. InPlace(g, c)
  <2>1. SUFFICES ASSUME NEW i \in DOMAIN g, g[i].kind = "result" PROVE \E a \in DOMAIN g : InBlock(g, c, a, i)
    BY DEF InPlace
  <2>2. CASE i = L + 1
    <3>1. L \in DOMAIN g /\ g[L].kind = "response" /\ g[L].of = m
      BY <1>1, <1>3, <1>4
    <3>2. InBlock(g, c, L, i)
      BY <1>1, <1>2, <1>4, <2>2, <3>1 DEF InBlock
    <3> QED BY <3>1, <3>2
  <2>3. CASE i # L + 1
    <3>1. i \in DOMAIN h /\ g[i] = h[i]
      BY <1>1, <1>4, <2>3
    <3>2. PICK a \in DOMAIN h : InBlock(h, c, a, i)
      BY <2>1, <3>1 DEF Tidy, InPlace
    <3>3. a \in DOMAIN g /\ g[a] = h[a] /\ \A j \in a + 1..i : g[j] = h[j]
      BY <1>1, <1>4, <3>1
    <3>4. InBlock(g, c, a, i)
      BY <3>1, <3>2, <3>3 DEF InBlock
    <3> QED BY <3>3, <3>4
  <2> QED BY <2>2, <2>3
<1>6. \A i \in DOMAIN g : g[i].kind = "response" => i \in DOMAIN h /\ g[i] = h[i]
  BY <1>1, <1>2, <1>4
<1>7. Numbered(g, n)
  BY <1>6 DEF Tidy, Numbered
<1>8. RollsBack(g)
  <2>1. SUFFICES ASSUME NEW i \in DOMAIN g, g[i].how = "Streaming"
                 PROVE  g[i].kind = "response" /\ \A j \in DOMAIN g : j > i => g[j].kind = "result"
    BY DEF RollsBack
  <2>2. i \in DOMAIN h /\ g[i] = h[i]
    BY <1>1, <1>2, <1>4, <2>1
  <2>3. g[i].kind = "response" /\ \A j \in DOMAIN h : j > i => h[j].kind = "result"
    BY <2>1, <2>2 DEF Tidy, RollsBack
  <2> QED BY <1>1, <1>2, <1>4, <2>3
<1>9. Closed(g, c, R)
  <2>1. SUFFICES ASSUME NEW i \in DOMAIN h, h[i].kind = "response", g[i] = h[i], Begun(g, R, i)
                 PROVE  Answered(g, c, i) \/ AtTip(g, i)
    BY <1>6 DEF Closed
  <2>2. CASE i = L
    BY <1>1, <1>2, <1>4, <2>2 DEF AtTip
  <2>3. CASE i # L
    <3>1. i + 1 \in DOMAIN h /\ g[i + 1] = h[i + 1]
      BY <1>1, <1>4, <2>3
    <3>2. Begun(h, R, i)
      BY <2>1, <3>1 DEF Begun
    <3>3. ~AtTip(h, i)
      BY <1>1, <1>3, <2>3 DEF AtTip, L
    <3>4. Answered(h, c, i)
      BY <2>1, <3>2, <3>3 DEF Tidy, Closed
    <3>5. \A k \in 1..c[h[i].of] : i + k \in DOMAIN g /\ g[i + k].kind = "result"
      BY <1>1, <1>4, <3>4 DEF Answered
    <3> QED BY <2>1, <3>5 DEF Answered
  <2> QED BY <2>2, <2>3
<1> QED BY <1>1, <1>4, <1>5, <1>7, <1>8, <1>9 DEF Tidy, g, x

\* A response at the tip gets its calls.
LEMMA CallsTidy ==
    ASSUME NEW h, NEW c, NEW R, NEW n, Tidy(h, c, R, n), NEW m, h # <<>>, IsResponse(h, Len(h), m),
           NEW d, \A v \in 1..n : v # m => d[v] = c[v]
    PROVE  Tidy(h, d, R, n)
<1> DEFINE L == Len(h)
<1>1. h \in Seq(Items) /\ DOMAIN h = 1..L /\ L \in Nat \ {0} /\ n \in Nat
  BY DEF Tidy
<1>2. h[L].kind = "response" /\ h[L].of = m /\ L \in DOMAIN h
  BY <1>1 DEF IsResponse
<1>3. ASSUME NEW i \in DOMAIN h, h[i].kind = "response", i # L PROVE d[h[i].of] = c[h[i].of]
  <2>1. h[i].of # m
    BY <1>2, <1>3, ResponseUnique DEF Tidy
  <2>2. h[i].of \in 1..n
    BY <1>3 DEF Tidy, Numbered
  <2> QED BY <2>1, <2>2
<1>4. InPlace(h, d)
  <2>1. SUFFICES ASSUME NEW i \in DOMAIN h, h[i].kind = "result" PROVE \E a \in DOMAIN h : InBlock(h, d, a, i)
    BY DEF InPlace
  <2>2. PICK a \in DOMAIN h : InBlock(h, c, a, i)
    BY <2>1 DEF Tidy, InPlace
  <2>3. a # L /\ h[a].kind = "response"
    BY <1>1, <2>2 DEF InBlock
  <2>4. d[h[a].of] = c[h[a].of]
    BY <1>3, <2>3
  <2> QED BY <2>2, <2>4 DEF InBlock
<1>5. Closed(h, d, R)
  <2>1. SUFFICES ASSUME NEW i \in DOMAIN h, h[i].kind = "response", Begun(h, R, i)
                 PROVE  Answered(h, d, i) \/ AtTip(h, i)
    BY DEF Closed
  <2>2. Answered(h, c, i) \/ AtTip(h, i)
    BY <2>1 DEF Tidy, Closed
  <2>3. CASE i = L
    BY <2>3 DEF AtTip
  <2>4. CASE i # L
    BY <1>3, <2>1, <2>2, <2>4 DEF Answered
  <2> QED BY <2>3, <2>4
<1> QED BY <1>1, <1>4, <1>5 DEF Tidy

\* A response at the tip gets a record.
LEMMA RecordTidy ==
    ASSUME NEW h, NEW c, NEW R, NEW n, Tidy(h, c, R, n), NEW m, h # <<>>, IsResponse(h, Len(h), m),
           NEW Q, \A v \in Q : v \in R \/ v = m
    PROVE  Tidy(h, c, Q, n)
<1> DEFINE L == Len(h)
<1>1. h \in Seq(Items) /\ DOMAIN h = 1..L /\ L \in Nat \ {0} /\ n \in Nat
  BY DEF Tidy
<1>2. h[L].kind = "response" /\ h[L].of = m /\ L \in DOMAIN h
  BY <1>1 DEF IsResponse
<1>3. Closed(h, c, Q)
  <2>1. SUFFICES ASSUME NEW i \in DOMAIN h, h[i].kind = "response", Begun(h, Q, i)
                 PROVE  Answered(h, c, i) \/ AtTip(h, i)
    BY DEF Closed
  <2>2. CASE i = L
    BY <2>2 DEF AtTip
  <2>3. CASE i # L
    <3>1. h[i].of # m
      BY <1>2, <2>1, <2>3, ResponseUnique DEF Tidy
    <3>2. Begun(h, R, i)
      BY <2>1, <3>1 DEF Begun
    <3> QED BY <2>1, <3>2 DEF Tidy, Closed
  <2> QED BY <2>2, <2>3
<1> QED BY <1>1, <1>3 DEF Tidy

-----------------------------------------------------------------------------
(* What answer_skipped_calls and recover_interrupted_stream do to the      *)
(* answers.                                                                *)

\* g is h, or h with the other calls of the response m at the tip answered behind the first result.
Completes(h, c, a, g) ==
    \/ g = h /\ Answered(h, c, a)
    \/ /\ Len(h) = a + 1 /\ g \in Seq(Items) /\ c[h[a].of] \in Nat \ {0} /\ Len(g) = a + c[h[a].of]
       /\ \A i \in 1..a + 1 : g[i] = h[i]
       /\ \A i \in a + 2..Len(g) : g[i] = Result(h[a].of, i - a, h[a].of, "Cancelled")

\* The message a first result follows is its response.
LEMMA ParentOfFirst ==
    ASSUME NEW h \in Seq(Items), NEW a \in DOMAIN h, a + 1 \in DOMAIN h, h[a].kind # "result"
    PROVE  ParentOfResults(h, a + 1) = a
<1> DEFINE q == a + 1
           b == ParentOfResults(h, q)
<1>1. a \in Nat /\ q - 1 = a
  BY Positions
<1>2. b \in 0..q - 1 /\ \A i \in b + 1..q - 1 : h[i].kind = "result"
  <2>1. q \in DOMAIN h
    OBVIOUS
  <2> HIDE DEF q
  <2>2. QED BY <2>1, ParentFacts, Zenon
<1>3. b \in 0..a /\ \A i \in b + 1..a : h[i].kind = "result"
  BY <1>1, <1>2, Zenon
<1> HIDE DEF b
<1>4. b = a
  BY <1>1, <1>3
<1> QED BY <1>4 DEF b

\* The calls that are left are all, none, or those behind the first.
LEMMA SkippedCalls ==
    ASSUME NEW h, NEW R, NEW n, Tidy(h, calls, R, n), NEW a \in DOMAIN h, h[a].kind = "response",
           a + 1 \in DOMAIN h, h[a + 1].kind = "result", calls[h[a].of] \in Nat
    PROVE  /\ calls[h[a].of] # 0
           /\ Answered(h, calls, a) => Skipped(h, a, a + 1) = {}
           /\ ~Answered(h, calls, a) => Len(h) = a + 1 /\ Skipped(h, a, a + 1) = 2..calls[h[a].of]
<1> DEFINE m == h[a].of
           k == calls[m]
           p == a + 1
<1>1. h \in Seq(Items) /\ DOMAIN h = 1..Len(h) /\ Len(h) \in Nat /\ a \in Nat
  BY DEF Tidy
<1>2. InBlock(h, calls, a, p)
  BY FirstOf
<1>3. h[p].via = m /\ h[p].of = m /\ h[p].call = 1 /\ 1 <= k
  BY <1>1, <1>2 DEF InBlock
<1>4. Skipped(h, a, p) = {c \in 1..k : /\ ~IsResult(h, p, m, c)
                                       /\ \A i \in DOMAIN h : h[i] # Result(m, c, m, "Cancelled")}
  BY <1>3, Zenon DEF Skipped
<1>5. k \in Nat
  OBVIOUS
<1>6. \A c : IsResult(h, p, m, c) <=> c = 1
  BY <1>3 DEF IsResult
<1>7. ASSUME Answered(h, calls, a) PROVE Skipped(h, a, p) = {}
  <2>1. SUFFICES ASSUME NEW c \in 1..k, c # 1 PROVE \E i \in DOMAIN h : h[i] = Result(m, c, m, "Cancelled")
    BY <1>4, <1>6
  <2>2. a + c \in DOMAIN h /\ h[a + c].kind = "result" /\ \A j \in 1..c : a + j \in DOMAIN h /\ h[a + j].kind = "result"
    BY <1>5, <1>7, <2>1 DEF Answered
  <2>3. PICK b \in DOMAIN h : InBlock(h, calls, b, a + c)
    BY <2>2 DEF Tidy, InPlace
  <2>4. b = a
    <3>1. b \in Nat /\ a + c \in Nat
      BY <1>1, <2>1
    <3>2. ~(b < a)
      <4>1. b < a => a \in b + 1..a + c
        BY <1>1, <2>1, <3>1
      <4> QED BY <2>3, <4>1 DEF InBlock
    <3>3. ~(a < b)
      <4>1. ASSUME a < b PROVE b - a \in 1..c /\ a + (b - a) = b
        BY <1>1, <2>1, <2>3, <3>1, <4>1 DEF InBlock
      <4>2. ASSUME a < b PROVE h[b].kind = "result"
        BY <2>2, <4>1, <4>2
      <4> QED BY <2>3, <4>2 DEF InBlock
    <3> QED BY <1>1, <3>1, <3>2, <3>3
  <2>5. /\ h[a + c].kind = "result" /\ h[a + c].of = m /\ h[a + c].via = m /\ h[a + c].call = c
        /\ h[a + c].how = "Cancelled"
    BY <1>1, <2>1, <2>2, <2>3, <2>4 DEF InBlock
  <2>6. h[a + c] \in Items
    BY <1>1, <2>2
  <2>7. h[a + c] = Result(m, c, m, "Cancelled")
    BY <2>5, <2>6 DEF Items, Result
  <2> QED BY <2>2, <2>7
<1>8. ASSUME ~Answered(h, calls, a) PROVE Len(h) = p /\ Skipped(h, a, p) = 2..k
  <2>1. Begun(h, R, a)
    BY DEF Begun
  <2>2. AtTip(h, a)
    BY <1>8, <2>1 DEF Tidy, Closed
  <2>3. Len(h) = p
    BY <1>1, <2>2 DEF AtTip
  <2>4. ASSUME NEW c \in 1..k, c # 1, NEW i \in DOMAIN h, h[i] = Result(m, c, m, "Cancelled") PROVE FALSE
    <3>1. h[i].kind = "result" /\ h[i].of = m /\ h[i].call = c
      BY <2>4 DEF Result
    <3>2. InBlock(h, calls, a, i)
      BY <3>1, BlockOf
    <3> QED BY <1>1, <2>3, <2>4, <3>1, <3>2 DEF InBlock
  <2>5. Skipped(h, a, p) = {c \in 1..k : c # 1}
    BY <1>4, <1>6, <2>4
  <2>6. {c \in 1..k : c # 1} = 2..k
    BY <1>5
  <2> QED BY <2>3, <2>5, <2>6, Zenon
<1> QED BY <1>1, <1>3, <1>7, <1>8

\* answer_skipped_calls answers what is left, once, and right behind the first result.
LEMMA AnswerCompletes ==
    ASSUME NEW h, NEW R, NEW n, Tidy(h, calls, R, n), Sound(h), calls \in [Responses -> 0..MaxCalls],
           NEW a \in DOMAIN h, h[a].kind = "response", a + 1 \in DOMAIN h, h[a + 1].kind = "result"
    PROVE  Completes(h, calls, a, AnswerSkippedCalls(h, a + 1))
<1> DEFINE m == h[a].of
           k == calls[m]
           p == a + 1
           g == AnswerSkippedCalls(h, p)
           S == Skipped(h, a, p)
           t == [i \in 1..Cardinality(S) |-> Result(m, Ordered(S)[i], h[p].via, "Cancelled")]
<1>1. h \in Seq(Items) /\ DOMAIN h = 1..Len(h) /\ Len(h) \in Nat /\ a \in 1..Len(h)
  BY DEF Tidy
<1>2. m \in Responses /\ k \in Nat /\ k \in 0..MaxCalls /\ MaxCalls \in Nat /\ m \in 0..MaxResponses
  BY ResponsesType DEF Sound
<1>3. ParentOfResults(h, p) = a
  BY <1>1, ParentOfFirst
<1>4. g = h \o t
  <2>1. a # 0
    BY <1>1
  <2> QED BY <1>3, <2>1, Zenon DEF AnswerSkippedCalls
<1>5. /\ k # 0
      /\ Answered(h, calls, a) => S = {}
      /\ ~Answered(h, calls, a) => Len(h) = p /\ S = 2..k
  BY <1>2, SkippedCalls
<1>6. h[p].via = m
  BY FirstOf DEF InBlock
<1>7. CASE Answered(h, calls, a)
  <2>1. Cardinality(S) = 0
    BY <1>5, <1>7, FS_EmptySet
  <2>2. t = <<>>
    BY <2>1
  <2>3. h \o <<>> = h
    BY <1>1
  <2>4. g = h
    BY <1>4, <2>2, <2>3, Zenon
  <2> QED BY <1>7, <2>4 DEF Completes
<1>8. CASE ~Answered(h, calls, a)
  <2>1. Len(h) = p /\ S = 2..k
    BY <1>5, <1>8
  <2>2. Cardinality(2..k) = k - 1 /\ \A i \in 1..k - 1 : Ordered(2..k)[i] = i + 1
    BY <1>2, <1>5, OrderedTail
  <2>3. t = [i \in 1..k - 1 |-> Result(m, Ordered(2..k)[i], m, "Cancelled")]
    BY <1>6, <2>1, <2>2, Zenon
  <2> HIDE DEF t, g, S, k, m
  <2>4. ASSUME NEW i \in 1..k - 1
        PROVE  t[i] = Result(m, i + 1, m, "Cancelled") /\ t[i] \in Items
    <3>1. t[i] = Result(m, i + 1, m, "Cancelled")
      BY <2>2, <2>3
    <3>2. i + 1 \in 0..MaxCalls
      BY <1>2
    <3>3. "Cancelled" \in Statuses
      BY DEF Statuses
    <3> QED BY <1>2, <3>1, <3>2, <3>3, ResultItem
  <2>5. t \in Seq(Items) /\ Len(t) = k - 1
    <3>1. k - 1 \in Nat
      BY <1>2, <1>5
    <3> QED BY <2>3, <2>4, <3>1
  <2>6. /\ g \in Seq(Items) /\ Len(g) = Len(h) + Len(t)
        /\ \A i \in 1..Len(h) + Len(t) : g[i] = IF i <= Len(h) THEN h[i] ELSE t[i - Len(h)]
    BY <1>1, <1>4, <2>5, ConcatProperties
  <2>7. Len(g) = a + k
    BY <1>1, <1>2, <2>1, <2>5, <2>6
  <2>8. \A i \in 1..a + 1 : g[i] = h[i]
    BY <1>1, <1>2, <1>5, <2>1, <2>5, <2>6
  <2>9. ASSUME NEW i \in a + 2..a + k PROVE g[i] = Result(m, i - a, m, "Cancelled")
    <3>0. Len(h) = a + 1 /\ Len(t) = k - 1 /\ a \in Nat /\ k \in Nat
      BY <1>1, <1>2, <2>1, <2>5
    <3>1. i - Len(h) \in 1..k - 1 /\ i \in 1..Len(h) + Len(t) /\ ~(i <= Len(h)) /\ (i - Len(h)) + 1 = i - a
      BY <2>9, <3>0
    <3>2. g[i] = t[i - Len(h)]
      BY <2>6, <3>1
    <3> QED BY <2>4, <3>1, <3>2
  <2> QED BY <1>2, <1>5, <2>1, <2>6, <2>7, <2>8, <2>9 DEF Completes, g, k, m
<1> QED BY <1>7, <1>8

\* The answers stay in order when a response is answered completely.
LEMMA CompletedTidy ==
    ASSUME NEW h, NEW c, NEW R, NEW n, Tidy(h, c, R, n), NEW a \in DOMAIN h, h[a].kind = "response",
           a + 1 \in DOMAIN h, h[a + 1].kind = "result", NEW g, Completes(h, c, a, g)
    PROVE  /\ Tidy(g, c, R, n) /\ Answered(g, c, a)
           /\ \A i \in DOMAIN h : i \in DOMAIN g /\ g[i] = h[i]
           /\ g = h \/ (Len(h) = a + 1 /\ \A i \in DOMAIN g : i > a => g[i].kind = "result" /\ g[i].of = h[a].of)
<1> DEFINE m == h[a].of
           k == c[m]
<1>1. h \in Seq(Items) /\ DOMAIN h = 1..Len(h) /\ Len(h) \in Nat /\ a \in 1..Len(h) /\ n \in Nat
  BY DEF Tidy
<1>2. CASE g = h /\ Answered(h, c, a)
  BY <1>2
<1>3. CASE /\ Len(h) = a + 1 /\ g \in Seq(Items) /\ k \in Nat \ {0} /\ Len(g) = a + k
           /\ \A i \in 1..a + 1 : g[i] = h[i]
           /\ \A i \in a + 2..Len(g) : g[i] = Result(m, i - a, m, "Cancelled")
  <2>1. DOMAIN g = 1..a + k /\ DOMAIN h = 1..a + 1
    BY <1>1, <1>3
  <2>2. InBlock(h, c, a, a + 1)
    BY FirstOf
  <2> HIDE DEF m, k
  <2>3. ASSUME NEW i \in a + 2..a + k
        PROVE  /\ g[i].kind = "result" /\ g[i].of = m /\ g[i].via = m /\ g[i].call = i - a
               /\ g[i].how = "Cancelled"
    <3>1. g[i] = Result(m, i - a, m, "Cancelled")
      BY <1>3, <2>3
    <3> QED BY <3>1 DEF Result
  <2>4. h[a + 1].of = m /\ h[a + 1].via = m /\ h[a + 1].call = 1 /\ h[a].of = m
    BY <1>1, <2>2 DEF InBlock, m
  <2>5. \A i \in a + 1..a + k : g[i].kind = "result" /\ g[i].of = m /\ g[i].via = m /\ g[i].call = i - a
    <3>1. SUFFICES ASSUME NEW i \in a + 1..a + k
                   PROVE  g[i].kind = "result" /\ g[i].of = m /\ g[i].via = m /\ g[i].call = i - a
      OBVIOUS
    <3>2. CASE i = a + 1
      BY <1>1, <1>3, <2>4, <3>2
    <3>3. CASE i # a + 1
      BY <1>1, <1>3, <2>3, <3>3
    <3> QED BY <3>2, <3>3
  <2>6. \A i \in DOMAIN h : i \in DOMAIN g /\ g[i] = h[i]
    BY <1>1, <1>3, <2>1
  <2>7. \A i \in DOMAIN g : i \in DOMAIN h \/ i \in a + 2..a + k
    BY <1>1, <1>3, <2>1
  <2>8. InPlace(g, c)
    <3>1. SUFFICES ASSUME NEW i \in DOMAIN g, g[i].kind = "result" PROVE \E b \in DOMAIN g : InBlock(g, c, b, i)
      BY DEF InPlace
    <3>2. CASE i \in DOMAIN h
      <4>1. PICK b \in DOMAIN h : InBlock(h, c, b, i)
        BY <2>6, <3>1, <3>2 DEF Tidy, InPlace
      <4>2. \A j \in b + 1..i : j \in DOMAIN h
        BY <1>1, <2>1, <3>2, <4>1
      <4>3. InBlock(g, c, b, i)
        BY <2>6, <3>2, <4>1, <4>2 DEF InBlock
      <4> QED BY <2>6, <4>1, <4>3
    <3>3. CASE i \in a + 2..a + k
      <4>1. g[a] = h[a] /\ a \in DOMAIN g
        BY <2>6
      <4>2. /\ g[i].of = m /\ g[i].via = m /\ g[i].call = i - a /\ g[i].how = "Cancelled"
        BY <2>3, <3>3
      <4>3. \A j \in a + 1..i : g[j].kind = "result"
        <5>1. a \in Nat /\ k \in Nat /\ i \in Nat
          BY <1>1, <1>3, <3>3
        <5>2. \A j \in a + 1..i : j \in a + 1..a + k
          BY <3>3, <5>1
        <5> QED BY <2>5, <5>2
      <4>4. a < i /\ i - a <= c[m]
        BY <1>1, <1>3, <3>3 DEF k
      <4>5. InBlock(g, c, a, i)
        BY <2>4, <4>1, <4>2, <4>3, <4>4 DEF InBlock
      <4> QED BY <4>1, <4>5
    <3> QED BY <2>7, <3>2, <3>3
  <2>9. \A i \in DOMAIN g : g[i].kind = "response" => i \in DOMAIN h
    BY <2>3, <2>7
  <2>10. Numbered(g, n)
    BY <2>6, <2>9 DEF Tidy, Numbered
  <2>11. RollsBack(g)
    <3>1. SUFFICES ASSUME NEW i \in DOMAIN g, g[i].how = "Streaming"
                   PROVE  g[i].kind = "response" /\ \A j \in DOMAIN g : j > i => g[j].kind = "result"
      BY DEF RollsBack
    <3>2. i \in DOMAIN h /\ g[i] = h[i]
      BY <2>3, <2>6, <2>7, <3>1
    <3>3. g[i].kind = "response" /\ \A j \in DOMAIN h : j > i => h[j].kind = "result"
      BY <3>1, <3>2 DEF Tidy, RollsBack
    <3> QED BY <2>3, <2>6, <2>7, <3>3
  <2>12. Answered(g, c, a)
    <3>1. ASSUME NEW j \in 1..c[g[a].of] PROVE a + j \in DOMAIN g /\ g[a + j].kind = "result"
      <4>1. c[g[a].of] = k
        BY <2>6 DEF k, m
      <4>2. a + j \in a + 1..a + k
        BY <1>1, <1>3, <3>1, <4>1
      <4> QED BY <1>1, <2>1, <2>5, <4>2
    <3> QED BY <3>1 DEF Answered
  <2>13. Closed(g, c, R)
    <3>1. SUFFICES ASSUME NEW i \in DOMAIN h, h[i].kind = "response", g[i] = h[i], Begun(g, R, i), i # a
                   PROVE  Answered(g, c, i) \/ AtTip(g, i)
      BY <2>6, <2>9, <2>12 DEF Closed
    <3>2. i < a
      BY <1>1, <2>1, <3>1
    <3>3. i + 1 \in DOMAIN h /\ g[i + 1] = h[i + 1]
      BY <1>1, <2>1, <2>6, <3>1, <3>2
    <3>4. Begun(h, R, i) /\ ~AtTip(h, i)
      BY <1>1, <1>3, <3>1, <3>2, <3>3 DEF Begun, AtTip
    <3>5. Answered(h, c, i)
      BY <3>1, <3>4 DEF Tidy, Closed
    <3> QED BY <2>6, <3>1, <3>5 DEF Answered
  <2>14. \A i \in DOMAIN g : i > a => g[i].kind = "result" /\ g[i].of = m
    BY <1>1, <2>1, <2>5
  <2> QED BY <1>1, <1>3, <2>6, <2>8, <2>10, <2>11, <2>12, <2>13, <2>14 DEF Tidy, m
<1> QED BY <1>2, <1>3 DEF Completes

\* recover_interrupted_stream leaves nothing open, unless the result of a recorded response is missing.
LEMMA RecoveredTidy ==
    ASSUME NEW h, NEW R, NEW n, Tidy(h, calls, R, n), Sound(h), calls \in [Responses -> 0..MaxCalls]
    PROVE  LET g == RecoverInterruptedStream(h)
           IN  /\ Tidy(g, calls, R, n)
               /\ (\A i \in DOMAIN h : h[i].kind = "response" /\ h[i].of \in R => i # Len(h)) => Full(g, calls, R)
<1> DEFINE g == RecoverInterruptedStream(h)
           L == Len(h)
           a == ParentOfResults(h, L)
           k == [h EXCEPT ![a].how = "Complete"]
           Due1 == \A i \in DOMAIN h : h[i].kind = "response" /\ h[i].of \in R => i # L
<1>1. h \in Seq(Items) /\ DOMAIN h = 1..L /\ L \in Nat /\ n \in Nat
  BY DEF Tidy
<1>2. CASE h = <<>>
  <2>1. g = h
    BY <1>2, Zenon DEF RecoverInterruptedStream
  <2>2. DOMAIN h = {}
    BY <1>2
  <2> QED BY <2>1, <2>2 DEF Full
<1>3. CASE h # <<>> /\ h[L].kind = "response" /\ h[L].how = "Streaming"
  <2>1. g = Front(h)
    BY <1>3, Zenon DEF RecoverInterruptedStream
  <2>2. /\ Tidy(g, calls, R, n)
        /\ \A i \in DOMAIN g : h[i].kind = "response" /\ Begun(g, R, i) => Answered(g, calls, i)
        /\ Len(g) = L - 1 /\ \A i \in DOMAIN g : i \in DOMAIN h /\ g[i] = h[i]
    BY <1>3, <2>1, FrontTidy
  <2> HIDE DEF g, L
  <2>3. \A i \in DOMAIN g : i \in Nat /\ i < L
    BY <1>1, <2>2 DEF Tidy
  <2>4. ASSUME NEW i \in DOMAIN g, g[i].how = "Streaming" PROVE FALSE
    <3>1. h[i].how = "Streaming" /\ i \in DOMAIN h /\ i < L /\ L \in DOMAIN h
      BY <1>1, <2>2, <2>3, <2>4
    <3>2. h[L].kind = "result"
      BY <3>1 DEF Tidy, RollsBack
    <3> QED BY <1>3, <3>2
  <2>5. Full(g, calls, R)
    BY <2>2, <2>4 DEF Full
  <2> QED BY <2>2, <2>5 DEF g
<1>4. CASE h # <<>> /\ h[L].kind = "result"
  <2>1. L \in DOMAIN h /\ L > 0
    BY <1>1, <1>4
  <2>2. PICK b \in DOMAIN h : InBlock(h, calls, b, L)
    BY <1>4, <2>1 DEF Tidy, InPlace
  <2>3. a \in 0..L - 1 /\ (a # 0 => h[a].kind # "result") /\ \A i \in a + 1..L - 1 : h[i].kind = "result"
    BY <1>1, <2>1, ParentFacts, Zenon
  <2>4. b \in 1..L - 1 /\ h[b].kind = "response" /\ \A i \in b + 1..L : h[i].kind = "result"
    BY <1>1, <2>1, <2>2 DEF InBlock
  <2> HIDE DEF a
  <2>5. a = b
    <3>1. ~(a < b)
      <4>1. a < b => b \in a + 1..L - 1
        BY <1>1, <2>3, <2>4
      <4> QED BY <2>3, <2>4, <4>1
    <3>2. ~(b < a)
      <4>1. b < a => a \in b + 1..L /\ a # 0
        BY <1>1, <2>3, <2>4
      <4> QED BY <2>3, <2>4, <4>1
    <3> QED BY <1>1, <2>3, <2>4, <3>1, <3>2
  <2>6. /\ a \in DOMAIN h /\ h[a].kind = "response" /\ a + 1 \in DOMAIN h /\ h[a + 1].kind = "result" /\ a # 0
        /\ \A i \in DOMAIN h : i > a => h[i].kind = "result"
    BY <1>1, <2>4, <2>5
  <2>7. h[a + 1].of = h[a].of
    BY <2>6, FirstOf DEF InBlock
  <2> DEFINE x == [h[a] EXCEPT !.how = "Complete"]
  <2>8. x \in Items /\ x.kind = h[a].kind /\ x.of = h[a].of /\ x.how = "Complete"
    <3>1. h[a] \in Items
      BY <1>1, <2>6
    <3> QED BY <3>1 DEF Items
  <2>9. k = [h EXCEPT ![a] = x]
    OBVIOUS
  <2> HIDE DEF x, k
  <2>10. /\ k \in Seq(Items) /\ DOMAIN k = DOMAIN h /\ Len(k) = L
         /\ k[a] = x /\ \A i \in DOMAIN h : i # a => k[i] = h[i]
    BY <1>1, <2>6, <2>8, <2>9
  <2> HIDE DEF L
  <2>11. Tidy(k, calls, R, n)
    <3>1. \A i \in DOMAIN h : /\ k[i].kind = h[i].kind /\ k[i].of = h[i].of
                              /\ h[i].kind = "result" => k[i] = h[i]
                              /\ k[i].how = "Streaming" => h[i].how = "Streaming"
      <4>1. SUFFICES ASSUME NEW i \in DOMAIN h
                     PROVE  /\ k[i].kind = h[i].kind /\ k[i].of = h[i].of
                            /\ h[i].kind = "result" => k[i] = h[i]
                            /\ k[i].how = "Streaming" => h[i].how = "Streaming"
        OBVIOUS
      <4>2. CASE i = a
        BY <2>6, <2>8, <2>10, <4>2
      <4>3. CASE i # a
        BY <2>10, <4>3
      <4> QED BY <4>2, <4>3
    <3> QED BY <2>10, <3>1, SavedTidy
  <2>12. Sound(k)
    <3>1. ASSUME NEW i \in DOMAIN k, k[i].kind = "response" PROVE k[i].of \in Responses
      <4>1. h[i].kind = "response" /\ h[i].of = k[i].of
        BY <2>8, <2>10, <3>1
      <4> QED BY <2>10, <4>1 DEF Sound
    <3> QED BY <2>10, <3>1 DEF Sound
  <2>13. a + 1 # a
    BY <1>1, <2>6
  <2>14. g = AnswerSkippedCalls(k, a + 1)
    <3>1. ~(h[Len(h)].kind = "response" /\ h[Len(h)].how = "Streaming")
      BY <1>4 DEF L
    <3>2. h[Len(h)].kind = "result" /\ a > 0 /\ IsResponse(h, a, h[a + 1].of)
      BY <1>1, <1>4, <2>6, <2>7 DEF IsResponse, L
    <3> QED BY <1>4, <3>1, <3>2, Zenon DEF RecoverInterruptedStream, L, a, k
  <2>15. Completes(k, calls, a, g)
    BY <2>6, <2>8, <2>10, <2>11, <2>12, <2>13, <2>14, AnswerCompletes
  <2> HIDE DEF g
  <2>16. k[a].kind = "response" /\ k[a + 1].kind = "result" /\ a \in DOMAIN k /\ a + 1 \in DOMAIN k
    BY <2>6, <2>8, <2>10, <2>13
  <2>17. /\ Tidy(g, calls, R, n) /\ Answered(g, calls, a)
         /\ \A i \in DOMAIN k : i \in DOMAIN g /\ g[i] = k[i]
         /\ g = k \/ (Len(k) = a + 1 /\ \A i \in DOMAIN g : i > a => g[i].kind = "result" /\ g[i].of = k[a].of)
    BY <2>11, <2>15, <2>16, CompletedTidy
  <2>18. \A i \in DOMAIN g : i > a => g[i].kind = "result"
    <3>1. CASE g = k
      <4>1. \A i \in DOMAIN h : i > a => i # a
        BY <1>1, <2>6
      <4> QED BY <2>6, <2>10, <3>1, <4>1
    <3> QED BY <2>17, <3>1
  <2>19. \A i \in DOMAIN g : i \in Nat
    BY <2>17 DEF Tidy
  <2>20. ASSUME NEW i \in DOMAIN g, g[i].kind = "response", Begun(g, R, i) PROVE Answered(g, calls, i)
    <3>1. CASE i = a
      BY <2>17, <3>1
    <3>2. CASE i # a
      <4>1. i < a
        BY <1>1, <2>6, <2>18, <2>19, <2>20, <3>2
      <4>2. Answered(g, calls, i) \/ AtTip(g, i)
        BY <2>17, <2>20 DEF Tidy, Closed
      <4>3. g[a].kind = "response" /\ a \in DOMAIN g /\ a + 1 \in DOMAIN g
        BY <2>16, <2>17
      <4>4. Len(g) >= a + 1
        BY <2>17, <4>3 DEF Tidy
      <4>5. ~AtTip(g, i)
        <5>1. Len(g) \in Nat /\ a \in Nat /\ i \in Nat
          BY <1>1, <2>6, <2>17, <2>19 DEF Tidy
        <5> QED BY <4>1, <4>4, <5>1 DEF AtTip
      <4> QED BY <4>2, <4>5
    <3> QED BY <3>1, <3>2
  <2>21. ASSUME NEW i \in DOMAIN g, g[i].how = "Streaming" PROVE FALSE
    <3>1. g[i].kind = "response" /\ \A j \in DOMAIN g : j > i => g[j].kind = "result"
      BY <2>17, <2>21 DEF Tidy, RollsBack
    <3>2. a \in DOMAIN g /\ g[a] = x /\ g[a].kind = "response"
      BY <2>10, <2>16, <2>17
    <3>3. i = a
      BY <1>1, <2>6, <2>18, <2>19, <3>1, <3>2
    <3> QED BY <2>8, <2>21, <3>2, <3>3
  <2> QED BY <2>17, <2>20, <2>21 DEF Full, g
<1>5. CASE h # <<>> /\ h[L].kind # "result" /\ ~(h[L].kind = "response" /\ h[L].how = "Streaming")
  <2>1. g = h
    BY <1>5, Zenon DEF RecoverInterruptedStream
  <2>2. L \in DOMAIN h
    BY <1>1, <1>5
  <2>3. \A i \in DOMAIN h : h[i].how # "Streaming"
    <3>1. SUFFICES ASSUME NEW i \in DOMAIN h, h[i].how = "Streaming" PROVE FALSE
      OBVIOUS
    <3>2. h[i].kind = "response" /\ \A j \in DOMAIN h : j > i => h[j].kind = "result"
      BY <3>1 DEF Tidy, RollsBack
    <3>3. i = L
      BY <1>1, <1>5, <2>2, <3>2
    <3> QED BY <1>5, <3>1, <3>2, <3>3
  <2>4. ASSUME Due1, NEW i \in DOMAIN h, h[i].kind = "response", Begun(h, R, i) PROVE Answered(h, calls, i)
    <3>1. Answered(h, calls, i) \/ AtTip(h, i)
      BY <2>4 DEF Tidy, Closed
    <3>2. ~(Len(h) = i + 1 /\ h[i + 1].kind = "result")
      BY <1>5
    <3>3. i # L
      <4>1. i = L => i + 1 \notin DOMAIN h
        BY <1>1
      <4> QED BY <2>4, <4>1 DEF Begun
    <3> QED BY <3>1, <3>2, <3>3 DEF AtTip
  <2>5. Due1 => Full(h, calls, R)
    BY <2>3, <2>4 DEF Full
  <2> QED BY <2>1, <2>5
<1> QED BY <1>2, <1>3, <1>4, <1>5

\* The history h with the messages of a preparation behind it.
WithMessages(h, sent, m) == h \o [i \in 1..sent |-> User] \o <<Response(m, "Streaming")>>

\* append_messages of a preparation, item by item.
LEMMA PreparedItems ==
    ASSUME NEW h \in Seq(Items), NEW m \in Responses, NEW sent \in Nat,
           NEW g, g = WithMessages(h, sent, m)
    PROVE  /\ g \in Seq(Items) /\ Len(g) = Len(h) + sent + 1
           /\ \A i \in 1..Len(h) : g[i] = h[i]
           /\ \A i \in Len(h) + 1..Len(h) + sent : g[i] = User
           /\ g[Len(g)] = Response(m, "Streaming")
<1> DEFINE us == [i \in 1..sent |-> User]
           x == Response(m, "Streaming")
           f == h \o us
<1>1. DOMAIN h = 1..Len(h) /\ Len(h) \in Nat /\ m \in 0..MaxResponses
  BY ResponsesType
<1>2. User \in Items /\ x \in Items
  <2>1. 0 \in 0..MaxResponses /\ 0 \in 0..MaxCalls
    BY ResponsesType
  <2>2. QED BY <1>1, <2>1 DEF User, Response, Items
<1>3. us \in Seq(Items) /\ Len(us) = sent /\ \A i \in 1..sent : us[i] = User
  BY <1>2
<1>8. g = f \o <<x>>
  BY DEF WithMessages
<1> HIDE DEF us, x
<1>4. /\ f \in Seq(Items) /\ Len(f) = Len(h) + sent
      /\ \A i \in 1..Len(h) + sent : f[i] = IF i <= Len(h) THEN h[i] ELSE us[i - Len(h)]
  BY <1>1, <1>3, ConcatProperties
<1> HIDE DEF f
<1>5. g = Append(f, x) /\ g \in Seq(Items) /\ Len(g) = Len(f) + 1 /\ g[Len(f) + 1] = x
      /\ \A i \in 1..Len(f) : g[i] = f[i]
  <2>1. f \in Seq(Items) /\ x \in Items
    BY <1>2, <1>4
  <2>2. g = Append(f, x)
    BY <1>8, <2>1, AppendIsConcat, Zenon
  <2>3. Append(f, x) \in Seq(Items) /\ Len(Append(f, x)) = Len(f) + 1 /\ Append(f, x)[Len(f) + 1] = x
        /\ \A i \in 1..Len(f) : Append(f, x)[i] = f[i]
    BY <2>1, AppendProperties
  <2> QED BY <2>2, <2>3
<1>6. \A i \in 1..Len(h) : g[i] = h[i]
  BY <1>1, <1>4, <1>5
<1>7. ASSUME NEW i \in Len(h) + 1..Len(h) + sent PROVE g[i] = User
  <2>1. i - Len(h) \in 1..sent /\ i \in 1..Len(h) + sent /\ ~(i <= Len(h))
    BY <1>1
  <2>2. g[i] = f[i] /\ f[i] = us[i - Len(h)]
    BY <1>4, <1>5, <2>1
  <2> QED BY <1>3, <2>1, <2>2
<1> QED BY <1>4, <1>5, <1>6, <1>7 DEF f, us, x

\* A preparation puts its messages behind answers that are complete.
LEMMA PreparedTidy ==
    ASSUME NEW h, NEW c, NEW R, NEW n, Tidy(h, c, R, n), Full(h, c, R), n + 1 \in Responses, NEW sent \in Nat
    PROVE  LET g == WithMessages(h, sent, n + 1)
           IN  /\ Tidy(g, c, R, n + 1)
               /\ g # <<>> /\ IsResponse(g, Len(g), n + 1)
<1> DEFINE g == WithMessages(h, sent, n + 1)
           m == n + 1
           L == Len(h)
           K == Len(g)
<1>1. h \in Seq(Items) /\ DOMAIN h = 1..L /\ L \in Nat /\ n \in Nat
  BY DEF Tidy
<1>2. /\ g \in Seq(Items) /\ K = L + sent + 1
      /\ \A i \in 1..L : g[i] = h[i]
      /\ \A i \in L + 1..L + sent : g[i] = User
      /\ g[K] = Response(m, "Streaming")
  <2>1. m \in Responses /\ g = WithMessages(h, sent, m)
    OBVIOUS
  <2> HIDE DEF g, m, L, K
  <2>2. /\ g \in Seq(Items) /\ Len(g) = Len(h) + sent + 1
        /\ \A i \in 1..Len(h) : g[i] = h[i]
        /\ \A i \in Len(h) + 1..Len(h) + sent : g[i] = User
        /\ g[Len(g)] = Response(m, "Streaming")
    BY <1>1, <2>1, PreparedItems
  <2> QED BY <2>2 DEF L, K
<1> HIDE DEF g
<1>3. DOMAIN g = 1..K /\ K \in Nat
  BY <1>2
<1> HIDE DEF L, K, m
<1>4. User.kind = "user" /\ User.how = "Complete"
  BY DEF User
<1>5. g[K].kind = "response" /\ g[K].of = m
  BY <1>2 DEF Response
<1>6. ASSUME NEW i \in DOMAIN g PROVE i \in DOMAIN h \/ g[i] = User \/ i = K
  BY <1>1, <1>2, <1>3
<1>7. \A i \in DOMAIN h : i \in DOMAIN g /\ g[i] = h[i] /\ i < K
  BY <1>1, <1>2, <1>3
<1>8. \A i \in DOMAIN g : g[i].kind = "result" => i \in DOMAIN h
  BY <1>4, <1>5, <1>6
<1>9. \A i \in DOMAIN g : g[i].kind = "response" => i \in DOMAIN h \/ i = K
  BY <1>4, <1>6
<1>10. InPlace(g, c)
  <2>1. SUFFICES ASSUME NEW i \in DOMAIN h, h[i].kind = "result", g[i] = h[i]
                 PROVE  \E a \in DOMAIN g : InBlock(g, c, a, i)
    BY <1>7, <1>8 DEF InPlace
  <2>2. PICK a \in DOMAIN h : InBlock(h, c, a, i)
    BY <2>1 DEF Tidy, InPlace
  <2>3. \A j \in a + 1..i : j \in DOMAIN h
    BY <1>1, <2>1, <2>2
  <2>4. InBlock(g, c, a, i)
    BY <1>7, <2>1, <2>2, <2>3 DEF InBlock
  <2> QED BY <1>7, <2>2, <2>4
<1>11. Numbered(g, m)
  <2>1. SUFFICES ASSUME NEW i \in DOMAIN g, g[i].kind = "response"
                 PROVE  /\ g[i].of \in 1..m
                        /\ \A j \in DOMAIN g : g[j].kind = "response" /\ i < j => g[i].of < g[j].of
    BY DEF Numbered
  <2>2. CASE i = K
    <3>1. \A j \in DOMAIN g : ~(i < j)
      BY <1>3, <2>2
    <3>2. m \in 1..m
      BY <1>1 DEF m
    <3> QED BY <1>5, <2>2, <3>1, <3>2
  <2>3. CASE i \in DOMAIN h
    <3>1. /\ g[i] = h[i] /\ h[i].of \in 1..n
          /\ \A j \in DOMAIN h : h[j].kind = "response" /\ i < j => h[i].of < h[j].of
      BY <1>7, <2>1, <2>3 DEF Tidy, Numbered
    <3>2. h[i].of \in 1..m /\ h[i].of < m
      BY <1>1, <3>1 DEF m
    <3>3. ASSUME NEW j \in DOMAIN g, g[j].kind = "response", i < j PROVE g[i].of < g[j].of
      <4>1. CASE j = K
        BY <1>5, <3>1, <3>2, <4>1
      <4>2. CASE j \in DOMAIN h
        BY <1>7, <3>1, <3>3, <4>2
      <4> QED BY <1>9, <3>3, <4>1, <4>2
    <3> QED BY <3>1, <3>2, <3>3
  <2> QED BY <1>9, <2>1, <2>2, <2>3
<1>12. RollsBack(g)
  <2>1. SUFFICES ASSUME NEW i \in DOMAIN g, g[i].how = "Streaming"
                 PROVE  g[i].kind = "response" /\ \A j \in DOMAIN g : j > i => g[j].kind = "result"
    BY DEF RollsBack
  <2>2. i \notin DOMAIN h
    BY <1>7, <2>1 DEF Full
  <2>3. i = K
    BY <1>4, <1>6, <2>1, <2>2
  <2>4. \A j \in DOMAIN g : ~(j > i)
    BY <1>3, <2>3
  <2> QED BY <1>5, <2>3, <2>4
<1>13. Closed(g, c, R)
  <2>1. SUFFICES ASSUME NEW i \in DOMAIN g, g[i].kind = "response", Begun(g, R, i)
                 PROVE  Answered(g, c, i) \/ AtTip(g, i)
    BY DEF Closed
  <2>2. CASE i = K
    BY <2>2 DEF AtTip, K
  <2>3. CASE i \in DOMAIN h
    <3>1. g[i] = h[i]
      BY <1>7, <2>3
    <3>2. Begun(h, R, i)
      <4>1. i + 1 \in DOMAIN g /\ g[i + 1].kind = "result" => i + 1 \in DOMAIN h /\ h[i + 1].kind = "result"
        BY <1>7, <1>8
      <4> QED BY <2>1, <3>1, <4>1 DEF Begun
    <3>3. Answered(h, c, i)
      BY <2>1, <2>3, <3>1, <3>2 DEF Full
    <3> QED BY <1>7, <3>1, <3>3 DEF Answered
  <2> QED BY <1>9, <2>1, <2>2, <2>3
<1>14. m \in Nat
  BY <1>1 DEF m
<1>15. g # <<>> /\ IsResponse(g, Len(g), m)
  <2>1. Len(g) = K /\ Len(g) # 0
    BY <1>1, <1>2 DEF K
  <2>2. g # <<>>
    BY <2>1
  <2> QED BY <1>5, <2>1, <2>2 DEF IsResponse
<1> QED BY <1>2, <1>10, <1>11, <1>12, <1>13, <1>14, <1>15 DEF Tidy, g, m

-----------------------------------------------------------------------------
(* What keeps the answers in order from one step to the next. *)

\* The responses with an execution record, and the order they are answered in.
Recorded == {m \in Responses : records[m].phase # "none"}
TidyInv == Tidy(history, calls, Recorded, made) /\ \A m \in Recorded : calls[m] # 0

\* The history ends in a result.
ResultTip == history # <<>> /\ history[Len(history)].kind = "result"

\* A turn that goes on, and a recovery, remember a lease token.
TokenOK(r) ==
    /\ turn[r].stage \notin Resting => token[r] /\ rec[r].next = "none"
    /\ turn[r].stage = "streaming" => turn[r].live
    /\ turn[r].stage = "preparing" /\ turn[r].origin = "continue" => token[r]
    /\ turn[r].stage = "down" => ~token[r]
    /\ rec[r].next # "none" => token[r] /\ turn[r].stage = "idle"

\* The response of a process that owns the session is the tip until its result is linked, and a
\* process that rests or recovers has missed no result.
AtTheTip == {"streaming", "completed", "created", "approval", "starting", "running", "ended",
             "broken", "finished"}
Missing(m) == Reachable(m) /\ ~Linked(m)
HeldOK(r) ==
    /\ rec[r].next = "none" =>
        /\ turn[r].stage \in AtTheTip => TipIs(turn[r].resp)
        /\ turn[r].stage = "completed" => calls[turn[r].resp] # 0
        /\ turn[r].stage = "delivered" => ResultTip
        /\ turn[r].stage \in Resting => \A m \in Recorded : ~Missing(m)
    /\ rec[r].next # "none" =>
        /\ \A m \in Recorded : Missing(m) => m \in rec[r].todo
        /\ rec[r].todo # {} /\ rec[r].at = "append" => Due(r) \in Recorded /\ Reachable(Due(r))

\* The answers, as long as no process went on under a lease it had lost, or claimed one without
\* recovering.
LeaseTypes == owner \in Runtimes \cup {NoOne} /\ token \in [Runtimes -> BOOLEAN]
AnswerInv ==
    /\ LeaseTypes
    /\ ~overtaken => /\ TidyInv
                     /\ \A r \in Runtimes : TokenOK(r) /\ (Owns(r) => HeldOK(r))

\* A recorded response without its result is the tip.
LEMMA MissingTip ==
    ASSUME ShapeInv, TidyInv, NEW m \in Recorded, Missing(m)
    PROVE  TipIs(m)
<1>1. PICK a \in DOMAIN history : IsResponse(history, a, m)
  BY Zenon DEF Missing, Reachable
<1>2. /\ history[a].kind = "response" /\ history[a].of = m
      /\ Tidy(history, calls, Recorded, made) /\ calls[m] # 0
  BY <1>1 DEF IsResponse, TidyInv
<1>3. history \in Seq(Items) /\ DOMAIN history = 1..Len(history) /\ Len(history) \in Nat
  BY <1>2 DEF Tidy
<1>4. ASSUME a + 1 \in DOMAIN history, history[a + 1].kind = "result" PROVE FALSE
  <2>1. InBlock(history, calls, a, a + 1)
    BY <1>2, <1>4, FirstOf
  <2>2. IsResult(history, a + 1, m, 1) /\ history[a + 1].via = m
    BY <1>2, <1>3, <1>4, <2>1 DEF InBlock, IsResult
  <2>3. Linked(m)
    BY <1>4, <2>2, Zenon DEF Linked
  <2> QED BY <2>3 DEF Missing
<1>5. Answered(history, calls, a) \/ AtTip(history, a)
  BY <1>2 DEF Tidy, Closed, Begun
<1>6. calls[m] \in Nat \ {0}
  <2>1. calls[m] \in 0..MaxCalls
    BY DEF Recorded, ShapeInv
  <2> QED BY <1>2, <2>1, ResponsesType
<1>7. ~Answered(history, calls, a)
  <2>1. 1 \in 1..calls[m]
    BY <1>6
  <2> QED BY <1>2, <1>4, <2>1 DEF Answered
<1>8. Len(history) = a
  <2>1. Len(history) = a + 1 => a + 1 \in DOMAIN history
    BY <1>3
  <2> QED BY <1>4, <1>5, <1>7, <2>1 DEF AtTip
<1> QED BY <1>1, <1>3, <1>8 DEF TipIs

\* The result of a response is right behind it.
LEMMA LinkedPlace ==
    ASSUME TidyInv, NEW m, Linked(m)
    PROVE  \E a \in DOMAIN history :
              /\ IsResponse(history, a, m) /\ ResultAt(m) = a + 1
              /\ a + 1 \in DOMAIN history /\ history[a + 1].kind = "result"
<1>1. PICK p : p = ResultAt(m)
  OBVIOUS
<1>2. p \in DOMAIN history /\ history[p].kind = "result" /\ history[p].call = 1 /\ history[p].of = m
  BY <1>1, ResultAtFirst DEF First, Own
<1>3. history \in Seq(Items) /\ InPlace(history, calls)
  BY DEF TidyInv, Tidy
<1>4. PICK a \in DOMAIN history : InBlock(history, calls, a, p)
  BY <1>2, <1>3 DEF InPlace
<1>5. a \in Nat /\ p \in Nat
  BY <1>2, <1>3
<1>6. p = a + 1 /\ IsResponse(history, a, m)
  BY <1>2, <1>4, <1>5 DEF InBlock, IsResponse
<1> QED BY <1>1, <1>2, <1>6

\* A response at the tip has no result.
LEMMA TipUnlinked ==
    ASSUME TidyInv, NEW m, TipIs(m)
    PROVE  ~Linked(m)
<1>1. SUFFICES ASSUME Linked(m) PROVE FALSE
  OBVIOUS
<1>2. PICK a \in DOMAIN history : IsResponse(history, a, m) /\ a + 1 \in DOMAIN history
  BY <1>1, LinkedPlace
<1>3. history \in Seq(Items) /\ Numbered(history, made)
  BY DEF TidyInv, Tidy
<1>4. Len(history) \in DOMAIN history /\ DOMAIN history = 1..Len(history) /\ Len(history) \in Nat
  BY <1>3 DEF TipIs
<1>5. a = Len(history)
  BY <1>2, <1>3, <1>4, ResponseUnique DEF TipIs, IsResponse
<1> QED BY <1>2, <1>4, <1>5

\* When no result is missing, no recorded response is the tip.
LEMMA NoneAtTip ==
    ASSUME TidyInv, \A m \in Recorded : ~Missing(m)
    PROVE  \A i \in DOMAIN history : history[i].kind = "response" /\ history[i].of \in Recorded => i # Len(history)
<1>1. SUFFICES ASSUME NEW i \in DOMAIN history, history[i].kind = "response", history[i].of \in Recorded,
                      i = Len(history)
               PROVE  FALSE
  OBVIOUS
<1>2. PICK m : m = history[i].of
  OBVIOUS
<1>3. IsResponse(history, i, m) /\ history # <<>>
  BY <1>1, <1>2 DEF IsResponse
<1>4. Reachable(m) /\ TipIs(m)
  BY <1>1, <1>3, Zenon DEF Reachable, TipIs
<1>5. ~Linked(m)
  BY <1>4, TipUnlinked
<1> QED BY <1>1, <1>2, <1>4, <1>5 DEF Missing

\* When the history ends in a result, none is missing.
LEMMA NoneMissing ==
    ASSUME ShapeInv, TidyInv, ResultTip
    PROVE  \A m \in Recorded : ~Missing(m)
<1>1. SUFFICES ASSUME NEW m \in Recorded, Missing(m) PROVE FALSE
  OBVIOUS
<1>2. TipIs(m)
  BY <1>1, MissingTip
<1> QED BY <1>2 DEF TipIs, IsResponse, ResultTip

\* answer_skipped_calls for the result of m keeps the answers in order.
LEMMA AnswerTidy ==
    ASSUME ShapeInv, TidyInv, NEW m, Linked(m)
    PROVE  LET g == AnswerSkippedCalls(history, ResultAt(m))
           IN  /\ Tidy(g, calls, Recorded, made)
               /\ \A i \in DOMAIN history : i \in DOMAIN g /\ g[i] = history[i]
               /\ \A i \in DOMAIN g : i \in DOMAIN history \/ g[i].kind = "result"
               /\ ResultTip => g # <<>> /\ g[Len(g)].kind = "result"
<1>1. PICK a \in DOMAIN history : /\ IsResponse(history, a, m) /\ ResultAt(m) = a + 1
                                  /\ a + 1 \in DOMAIN history /\ history[a + 1].kind = "result"
  BY LinkedPlace
<1>2. PICK g : g = AnswerSkippedCalls(history, ResultAt(m))
  OBVIOUS
<1>3. history[a].kind = "response" /\ Tidy(history, calls, Recorded, made)
  BY <1>1 DEF IsResponse, TidyInv
<1>4. Completes(history, calls, a, g)
  <2>1. Sound(history) /\ calls \in [Responses -> 0..MaxCalls]
    BY DEF ShapeInv
  <2> QED BY <1>1, <1>2, <1>3, <2>1, AnswerCompletes
<1>5. /\ Tidy(g, calls, Recorded, made)
      /\ \A i \in DOMAIN history : i \in DOMAIN g /\ g[i] = history[i]
      /\ \/ g = history
         \/ Len(history) = a + 1 /\ \A i \in DOMAIN g : i > a => g[i].kind = "result" /\ g[i].of = history[a].of
  BY <1>1, <1>3, <1>4, CompletedTidy
<1>6. /\ history \in Seq(Items) /\ g \in Seq(Items)
      /\ DOMAIN history = 1..Len(history) /\ Len(history) \in Nat
      /\ DOMAIN g = 1..Len(g) /\ Len(g) \in Nat /\ a \in Nat
  BY <1>3, <1>5 DEF Tidy
<1>7. \A i \in DOMAIN g : i \in DOMAIN history \/ g[i].kind = "result"
  BY <1>5, <1>6
<1>8. ResultTip => g # <<>> /\ g[Len(g)].kind = "result"
  <2>1. CASE g = history
    BY <2>1 DEF ResultTip
  <2>2. CASE Len(history) = a + 1 /\ \A i \in DOMAIN g : i > a => g[i].kind = "result" /\ g[i].of = history[a].of
    <3>1. a + 1 \in DOMAIN g
      BY <1>1, <1>5
    <3>2. Len(g) \in DOMAIN g /\ Len(g) > a /\ g # <<>>
      BY <1>6, <3>1
    <3> QED BY <2>2, <3>2
  <2> QED BY <1>5, <2>1, <2>2
<1> QED BY <1>2, <1>5, <1>7, <1>8, Zenon

\* Results behind the history neither add nor hide a response, and make no result missing.
LEMMA LinksExtended ==
    ASSUME \A i \in DOMAIN history : i \in DOMAIN history' /\ history'[i] = history[i],
           \A i \in DOMAIN history' : i \in DOMAIN history \/ history'[i].kind = "result",
           NEW m
    PROVE  /\ Missing(m)' => Missing(m)
           /\ Reachable(m) => Reachable(m)'
           /\ Linked(m) => Linked(m)'
<1>1. Reachable(m) => Reachable(m)'
  BY DEF Reachable, IsResponse
<1>2. Linked(m) => Linked(m)'
  BY DEF Linked, IsResult
<1>3. Reachable(m)' => Reachable(m)
  BY DEF Reachable, IsResponse
<1> QED BY <1>1, <1>2, <1>3 DEF Missing

-----------------------------------------------------------------------------
(* A step of r and the answers. *)

\* r may take the lease or give it up, and leaves the other processes alone.
LeaseStep(r) ==
    /\ owner' \in {owner, NoOne, r} /\ token' \in [Runtimes -> BOOLEAN]
    /\ \A q \in Runtimes : q # r => token'[q] = token[q] /\ turn'[q] = turn[q] /\ rec'[q] = rec[q]

SameAnswers == UNCHANGED <<history, calls, records, made>>

\* What holds of the answers while overtaken is false.
Held(r) == TidyInv /\ TokenOK(r) /\ (Owns(r) => HeldOK(r))

\* The invariant holds after a step of r if it holds of r, and r has the lease for what it changes.
LEMMA AnswersKept ==
    ASSUME AnswerInv, NEW r \in Runtimes, ~overtaken, LeaseStep(r), Held(r)',
           SameAnswers \/ owner' \in {NoOne, r}
    PROVE  AnswerInv'
<1>1. LeaseTypes'
  BY DEF AnswerInv, LeaseTypes, LeaseStep
<1>2. TidyInv'
  BY DEF Held
<1>3. ASSUME NEW q \in Runtimes, q # r PROVE TokenOK(q)'
  <2>1. TokenOK(q) /\ token'[q] = token[q] /\ turn'[q] = turn[q] /\ rec'[q] = rec[q]
    BY <1>3 DEF AnswerInv, LeaseStep
  <2> QED BY <2>1 DEF TokenOK
<1>4. ASSUME NEW q \in Runtimes, q # r, Owns(q)' PROVE HeldOK(q)'
  <2>1. owner' = q /\ token'[q] /\ token'[q] = token[q] /\ turn'[q] = turn[q] /\ rec'[q] = rec[q]
    BY <1>4 DEF Owns, LeaseStep
  <2>2. q # NoOne
    BY ScriptTurnAssumption
  <2>3. owner = q /\ SameAnswers
    BY <1>4, <2>1, <2>2 DEF LeaseStep
  <2>4. HeldOK(q)
    BY <2>1, <2>3 DEF AnswerInv, Owns
  <2>5. /\ Recorded' = Recorded
        /\ \A m : (Reachable(m)' <=> Reachable(m)) /\ (Missing(m)' <=> Missing(m)) /\ (TipIs(m)' <=> TipIs(m))
        /\ ResultTip' <=> ResultTip
    BY <2>3 DEF SameAnswers, Recorded, Missing, Reachable, Linked, TipIs, ResultTip, IsResponse, IsResult
  <2>6. calls' = calls
    BY <2>3 DEF SameAnswers
  <2> HIDE DEF AtTheTip
  <2> QED BY <2>1, <2>4, <2>5, <2>6 DEF HeldOK, Due
<1> QED BY <1>1, <1>2, <1>3, <1>4 DEF AnswerInv, Held

\* A step that changes no answer keeps them in order.
LEMMA SameTidy ==
    ASSUME TidyInv, SameAnswers
    PROVE  /\ TidyInv' /\ Recorded' = Recorded
           /\ \A m : (Reachable(m)' <=> Reachable(m)) /\ (Missing(m)' <=> Missing(m)) /\ (TipIs(m)' <=> TipIs(m))
           /\ ResultTip' <=> ResultTip
<1>1. /\ Recorded' = Recorded
      /\ \A m : (Reachable(m)' <=> Reachable(m)) /\ (Missing(m)' <=> Missing(m)) /\ (TipIs(m)' <=> TipIs(m))
      /\ ResultTip' <=> ResultTip
  BY DEF SameAnswers, Recorded, Missing, Reachable, Linked, TipIs, ResultTip, IsResponse, IsResult
<1>2. TidyInv'
  BY <1>1 DEF SameAnswers, TidyInv
<1> QED BY <1>1, <1>2

\* A turn that goes on is the work of a process that remembers its token.
LEMMA Holding ==
    ASSUME AnswerInv, ~overtaken, NEW r \in Runtimes
    PROVE  /\ TidyInv /\ TokenOK(r) /\ (Owns(r) => HeldOK(r)) /\ token[r] \in BOOLEAN
           /\ token[r] /\ CanWrite(r) => Owns(r) /\ HeldOK(r)
<1>1. TidyInv /\ TokenOK(r) /\ (Owns(r) => HeldOK(r))
  BY Zenon DEF AnswerInv
<1>2. token[r] \in BOOLEAN
  BY DEF AnswerInv, LeaseTypes
<1>3. token[r] /\ CanWrite(r) => Owns(r)
  BY Zenon DEF CanWrite, Owns
<1> QED BY <1>1, <1>2, <1>3

\* Where an actor is that rests, prepares a turn, or is down.
LEMMA RestingStages ==
    /\ Idle.stage = "idle" /\ Down.stage = "down"
    /\ \A o, t : Preparing(o, t).stage = "preparing" /\ Preparing(o, t).origin = o
<1>1. Idle.stage = "idle" /\ Down.stage = "down"
  BY DEF Idle, Down
<1>2. ASSUME NEW o, NEW t PROVE Preparing(o, t).stage = "preparing" /\ Preparing(o, t).origin = o
  BY DEF Idle, Preparing
<1> QED BY <1>1, <1>2

\* finish_turn gives the lease up, whatever the step has changed.
LEMMA FinishHeld ==
    ASSUME ShapeInv, AnswerInv, ~overtaken, NEW r \in Runtimes, FinishTurn(r) \/ FinishAndDrain(r),
           \/ rec' = rec /\ rec[r].next = "none"
           \/ rec' = [rec EXCEPT ![r] = NoRecovery],
           TidyInv', SameAnswers \/ Owns(r)
    PROVE  AnswerInv'
<1>1. /\ owner' = (IF Owns(r) THEN NoOne ELSE owner)
      /\ token' = [token EXCEPT ![r] = FALSE]
  BY Zenon DEF FinishTurn, FinishAndDrain, Release
<1>2. turn' = [turn EXCEPT ![r] = Idle] \/ turn' = [turn EXCEPT ![r] = Drained]
  BY Zenon DEF FinishTurn, FinishAndDrain
<1>3. token \in [Runtimes -> BOOLEAN] /\ turn \in [Runtimes -> Actors] /\ rec \in [Runtimes -> Recoveries]
  BY DEF AnswerInv, LeaseTypes, ShapeInv
<1>4. LeaseStep(r) /\ ~token'[r]
  BY <1>1, <1>2, <1>3 DEF LeaseStep
<1>5. rec'[r].next = "none"
  BY <1>3 DEF NoRecovery
<1>6. turn'[r].stage \in {"idle", "preparing"} /\ (turn'[r].stage = "preparing" => turn'[r].origin = "queue")
  <2>1. Drained = Idle \/ Drained = Preparing("queue", queued)
    BY DEF Drained
  <2>2. turn'[r] = Idle \/ turn'[r] = Preparing("queue", queued)
    BY <1>2, <1>3, <2>1
  <2> QED BY <2>2, RestingStages
<1>7. Held(r)'
  BY <1>4, <1>5, <1>6 DEF Held, TokenOK, Owns, Resting
<1>8. SameAnswers \/ owner' \in {NoOne, r}
  BY <1>1
<1> QED BY <1>4, <1>7, <1>8, AnswersKept

\* A process that is told that its lease is gone keeps no token.
LEMMA RecoverFailHeld ==
    ASSUME ShapeInv, AnswerInv, ~overtaken, NEW r \in Runtimes, RecoverFail(r), rec[r].next # "none"
    PROVE  AnswerInv'
<1>1. /\ owner' = (IF Owns(r) THEN NoOne ELSE owner)
      /\ token' = [token EXCEPT ![r] = FALSE]
      /\ rec' = [rec EXCEPT ![r] = NoRecovery]
      /\ turn' = [turn EXCEPT ![r].live = FALSE, ![r].active = @ /\ Owns(r)]
      /\ SameAnswers
  BY Zenon DEF RecoverFail, Release, SameAnswers, durable
<1>2. token \in [Runtimes -> BOOLEAN] /\ turn \in [Runtimes -> Actors] /\ rec \in [Runtimes -> Recoveries]
  BY DEF AnswerInv, LeaseTypes, ShapeInv
<1>3. turn'[r].stage = turn[r].stage /\ \A q \in Runtimes : q # r => turn'[q] = turn[q]
  BY <1>1, <1>2 DEF Actors
<1>4. TokenOK(r) /\ TidyInv
  BY Holding
<1>5. turn'[r].stage = "idle" /\ rec'[r].next = "none" /\ ~token'[r]
  BY <1>1, <1>2, <1>3, <1>4 DEF TokenOK, NoRecovery
<1>6. LeaseStep(r)
  BY <1>1, <1>2, <1>3 DEF LeaseStep
<1>7. TidyInv'
  BY <1>1, <1>4, SameTidy
<1>8. Held(r)'
  BY <1>5, <1>7 DEF Held, TokenOK, Owns, Resting
<1> QED BY <1>1, <1>6, <1>8, AnswersKept

\* A failed step of a handler gives the lease up.
LEMMA FailHeld ==
    ASSUME ShapeInv, AnswerInv, ~overtaken, NEW r \in Runtimes, FailScriptTurn(r), rec[r].next = "none"
    PROVE  AnswerInv'
<1>1. FinishAndDrain(r) /\ rec' = rec /\ SameAnswers
  BY Zenon DEF FailScriptTurn, SameAnswers, durable
<1>2. TidyInv'
  BY <1>1, Holding, SameTidy
<1> QED BY <1>1, <1>2, FinishHeld

-----------------------------------------------------------------------------
(* Steps that change no answer. *)

\* A turn that stays at its stage with its response, and a recovery that stays, are as right as before.
LEMMA SameHeld ==
    ASSUME TidyInv, SameAnswers, NEW r \in Runtimes, HeldOK(r), rec'[r] = rec[r],
           turn'[r].stage = turn[r].stage, turn'[r].resp = turn[r].resp
    PROVE  HeldOK(r)'
<1>1. /\ Recorded' = Recorded
      /\ \A m : (Reachable(m)' <=> Reachable(m)) /\ (Missing(m)' <=> Missing(m)) /\ (TipIs(m)' <=> TipIs(m))
      /\ ResultTip' <=> ResultTip
  BY SameTidy
<1>2. calls' = calls
  BY DEF SameAnswers
<1> HIDE DEF AtTheTip
<1> QED BY <1>1, <1>2 DEF HeldOK, Due

\* A handler that has the lease begins a preparation, or nothing.
LEMMA GrantedTurn ==
    ASSUME ShapeInv, NEW r \in Runtimes, NEW next, Granted(r, next)
    PROVE  \/ turn' = turn
           \/ /\ turn'[r].stage = "preparing" /\ turn'[r].origin = next
              /\ \A q \in Runtimes : q # r => turn'[q] = turn[q]
              /\ next # "busy"
<1>1. turn \in [Runtimes -> Actors]
  BY DEF ShapeInv
<1>2. SUFFICES ASSUME turn' # turn PROVE /\ turn'[r].stage = "preparing" /\ turn'[r].origin = next
                                         /\ \A q \in Runtimes : q # r => turn'[q] = turn[q]
                                         /\ next # "busy"
  OBVIOUS
<1>3. next # "busy" /\ \E t : turn' = [turn EXCEPT ![r] = [Preparing(next, t) EXCEPT !.active = turn[r].active]]
  BY <1>2, Zenon DEF Granted
<1>4. PICK t : turn' = [turn EXCEPT ![r] = [Preparing(next, t) EXCEPT !.active = turn[r].active]]
  BY <1>3
<1>5. turn'[r] = [Preparing(next, t) EXCEPT !.active = turn[r].active]
  BY <1>1, <1>4
<1>6. turn'[r].stage = "preparing" /\ turn'[r].origin = next
  BY <1>5 DEF Preparing, Idle
<1> QED BY <1>1, <1>3, <1>4, <1>6

\* An owner, or a recovery that is done, goes on with nothing missing.
LEMMA GrantedHeld ==
    ASSUME ShapeInv, AnswerInv, ~overtaken, NEW r \in Runtimes, NEW next, Granted(r, next),
           owner' = owner, token' = token, token[r], rec'[r].next = "none",
           \A q \in Runtimes : q # r => rec'[q] = rec[q],
           TidyInv', SameAnswers \/ Owns(r), turn' = turn => TokenOK(r)',
           turn' = turn /\ Owns(r) => HeldOK(r)',
           next # "busy" /\ Owns(r) => \A m \in Recorded' : ~Missing(m)'
    PROVE  AnswerInv'
<1>1. \/ turn' = turn
      \/ /\ turn'[r].stage = "preparing" /\ turn'[r].origin = next
         /\ \A q \in Runtimes : q # r => turn'[q] = turn[q]
         /\ next # "busy"
  BY GrantedTurn
<1>2. LeaseStep(r) /\ token'[r] /\ (Owns(r)' <=> Owns(r))
  BY <1>1 DEF LeaseStep, AnswerInv, LeaseTypes, Owns
<1>3. SameAnswers \/ owner' \in {NoOne, r}
  BY DEF Owns
<1>4. TokenOK(r)'
  <2>1. CASE turn' = turn
    BY <2>1
  <2>2. CASE turn'[r].stage = "preparing"
    BY <1>2, <2>2 DEF TokenOK, Resting
  <2> QED BY <1>1, <2>1, <2>2
<1>5. ASSUME Owns(r)' PROVE HeldOK(r)'
  <2>1. CASE turn' = turn
    BY <1>2, <1>5, <2>1
  <2>2. CASE turn' # turn
    <3>1. turn'[r].stage = "preparing" /\ \A m \in Recorded' : ~Missing(m)'
      BY <1>1, <1>2, <1>5, <2>2
    <3> QED BY <3>1 DEF HeldOK, AtTheTip
  <2> QED BY <2>1, <2>2
<1>6. Held(r)'
  BY <1>4, <1>5 DEF Held
<1> QED BY <1>2, <1>3, <1>6, AnswersKept

\* A process that claims the session and lists its records knows of every missing result.
LEMMA ClaimHeld ==
    ASSUME ShapeInv, AnswerInv, ~overtaken, NEW r \in Runtimes, NEW next, next # "none", Claim(r),
           rec' = [rec EXCEPT ![r] = Listed(next)], TidyInv', SameAnswers,
           turn'[r].stage = "idle", \A q \in Runtimes : q # r => turn'[q] = turn[q]
    PROVE  AnswerInv'
<1>1. owner' = r /\ token' = [token EXCEPT ![r] = TRUE]
  BY Zenon DEF Claim
<1>2. token \in [Runtimes -> BOOLEAN] /\ rec \in [Runtimes -> Recoveries]
  BY DEF AnswerInv, LeaseTypes, ShapeInv
<1>3. LeaseStep(r) /\ token'[r]
  BY <1>1, <1>2 DEF LeaseStep
<1>4. rec'[r].next = next /\ rec'[r].at = "look" /\ rec'[r].todo = Recorded
  BY <1>2 DEF Listed, Recorded
<1>5. Recorded' = Recorded
  BY DEF SameAnswers, Recorded
<1>6. TokenOK(r)'
  BY <1>3, <1>4 DEF TokenOK, Resting
<1>7. HeldOK(r)'
  BY <1>4, <1>5 DEF HeldOK
<1>8. Held(r)'
  BY <1>6, <1>7 DEF Held
<1> QED BY <1>1, <1>3, <1>8, AnswersKept

\* ensure_lease in a handler that has no recovery under way, after it has changed the answers or not.
LEMMA EnsureHeld ==
    ASSUME ShapeInv, AnswerInv, ~overtaken, NEW r \in Runtimes, NEW next, next # "none", NEW waiting,
           EnsureLease(r, next, waiting), ~overtaken', rec[r].next = "none", TidyInv', SameAnswers \/ Owns(r),
           turn' = turn /\ rec' = rec /\ Owns(r) => HeldOK(r)',
           next # "busy" /\ Owns(r) => \A m \in Recorded' : ~Missing(m)'
    PROVE  AnswerInv'
<1>1. token \in [Runtimes -> BOOLEAN] /\ rec \in [Runtimes -> Recoveries] /\ turn \in [Runtimes -> Actors]
  BY DEF AnswerInv, LeaseTypes, ShapeInv
<1>2. CASE Owns(r) /\ Granted(r, next) /\ UNCHANGED <<lease, rec, overtaken>>
  <2>1. owner' = owner /\ token' = token /\ rec' = rec /\ token[r]
    BY <1>2 DEF lease, Owns
  <2>2. TokenOK(r)
    BY Holding
  <2>3. turn' = turn => TokenOK(r)'
    BY <2>1, <2>2 DEF TokenOK
  <2>4. rec'[r].next = "none" /\ \A q \in Runtimes : q # r => rec'[q] = rec[q]
    BY <2>1
  <2> QED BY <1>2, <2>1, <2>3, <2>4, GrantedHeld
<1>3. CASE /\ ~Owns(r) /\ Claim(r) /\ rec' = [rec EXCEPT ![r] = Listed(next)]
           /\ turn' = [turn EXCEPT ![r] = waiting]
           /\ overtaken' = (overtaken \/ waiting.stage # "idle")
  <2>1. waiting.stage = "idle" /\ SameAnswers
    BY <1>3
  <2>2. turn'[r].stage = "idle" /\ \A q \in Runtimes : q # r => turn'[q] = turn[q]
    BY <1>1, <1>3, <2>1
  <2> QED BY <1>3, <2>1, <2>2, ClaimHeld
<1> QED BY <1>2, <1>3, Zenon DEF EnsureLease

\* A turn that stays where it is.
LEMMA StayHeld ==
    ASSUME ShapeInv, AnswerInv, ~overtaken, NEW r \in Runtimes, SameAnswers, owner' = owner, token' = token,
           rec' = rec, \A q \in Runtimes : q # r => turn'[q] = turn[q],
           turn'[r].stage = turn[r].stage, turn'[r].resp = turn[r].resp,
           turn'[r].live = turn[r].live, turn'[r].origin = turn[r].origin
    PROVE  AnswerInv'
<1>1. TidyInv /\ TokenOK(r) /\ (Owns(r) => HeldOK(r))
  BY Holding
<1>2. TidyInv'
  BY <1>1, SameTidy
<1>3. LeaseStep(r)
  BY DEF LeaseStep, AnswerInv, LeaseTypes
<1>4. TokenOK(r)'
  BY <1>1 DEF TokenOK
<1>5. Owns(r)' => HeldOK(r)'
  <2>1. Owns(r)' <=> Owns(r)
    BY DEF Owns
  <2>2. HeldOK(r) => HeldOK(r)'
    BY <1>1, SameHeld
  <2> QED BY <1>1, <2>1, <2>2
<1>6. Held(r)'
  BY <1>2, <1>4, <1>5 DEF Held
<1> QED BY <1>3, <1>6, AnswersKept

\* A script goes on to the next stage, and its record with it.
Scripted == {"approval", "starting", "running", "ended", "broken", "finished"}
LEMMA ToHeld ==
    ASSUME ShapeInv, AnswerInv, ~overtaken, NEW r \in Runtimes, NEW s \in Scripted, To(r, s),
           turn[r].stage \in AtTheTip, UNCHANGED <<lease, rec, history, calls, made>>, Recorded' = Recorded,
           records' = records \/ Owns(r)
    PROVE  AnswerInv'
<1>1. TidyInv /\ TokenOK(r) /\ (Owns(r) => HeldOK(r))
  BY Holding
<1>2. TidyInv'
  BY <1>1 DEF TidyInv
<1>3. turn \in [Runtimes -> Actors] /\ owner' = owner /\ token' = token /\ rec' = rec
  BY DEF ShapeInv, lease
<1>4. /\ turn'[r].stage = s /\ turn'[r].resp = turn[r].resp
      /\ \A q \in Runtimes : q # r => turn'[q] = turn[q]
  BY <1>3 DEF To, Actors
<1>5. LeaseStep(r)
  BY <1>3, <1>4 DEF LeaseStep, AnswerInv, LeaseTypes
<1>6. token[r] /\ rec[r].next = "none"
  BY <1>1 DEF TokenOK, AtTheTip, Resting
<1>7. TokenOK(r)'
  BY <1>3, <1>4, <1>6 DEF TokenOK, Scripted, Resting
<1>8. ASSUME Owns(r)' PROVE HeldOK(r)'
  <2>1. Owns(r)
    BY <1>3, <1>8 DEF Owns
  <2>2. TipIs(turn[r].resp)
    BY <1>1, <1>6, <2>1 DEF HeldOK
  <2>3. TipIs(turn[r].resp)'
    BY <1>4, <2>2 DEF TipIs, IsResponse
  <2>4. s \notin {"completed", "delivered"} /\ s \notin Resting
    BY DEF Scripted, Resting
  <2> QED BY <1>3, <1>4, <1>6, <2>3, <2>4 DEF HeldOK
<1>9. Held(r)'
  BY <1>2, <1>7, <1>8 DEF Held
<1>10. SameAnswers \/ owner' \in {NoOne, r}
  BY <1>3 DEF SameAnswers, Owns
<1> QED BY <1>5, <1>9, <1>10, AnswersKept

\* A process that stops keeps no token.
LEMMA DownHeld ==
    ASSUME ShapeInv, AnswerInv, ~overtaken, NEW r \in Runtimes, SameAnswers, owner' \in {owner, NoOne},
           token' = [token EXCEPT ![r] = FALSE], turn' = [turn EXCEPT ![r] = Down], rec'[r].next = "none",
           \A q \in Runtimes : q # r => rec'[q] = rec[q]
    PROVE  AnswerInv'
<1>1. token \in [Runtimes -> BOOLEAN] /\ turn \in [Runtimes -> Actors]
  BY DEF AnswerInv, LeaseTypes, ShapeInv
<1>2. LeaseStep(r) /\ ~token'[r]
  BY <1>1 DEF LeaseStep
<1>3. turn'[r].stage = "down"
  BY <1>1, RestingStages
<1>4. TidyInv'
  BY Holding, SameTidy
<1>5. Held(r)'
  BY <1>2, <1>3, <1>4 DEF Held, TokenOK, Owns, Resting
<1> QED BY <1>2, <1>5, AnswersKept

\* A request that asks for the lease.
LEMMA SendHeld ==
    ASSUME ShapeInv, AnswerInv, ~overtaken, ~overtaken', NEW r \in Runtimes, Send(r)
    PROVE  AnswerInv'
<1> DEFINE next == IF turn[r].stage # "idle" \/ turn[r].active THEN "busy"
                   ELSE IF queued > 0 THEN "queue" ELSE "send"
<1>1. EnsureLease(r, next, turn[r]) /\ rec[r].next = "none" /\ SameAnswers
  BY Zenon DEF Send, At, SameAnswers
<1>2. next # "none" /\ (next # "busy" => turn[r].stage = "idle")
  OBVIOUS
<1> HIDE DEF next
<1>3. TidyInv /\ (Owns(r) => HeldOK(r))
  BY Holding
<1>4. TidyInv' /\ Recorded' = Recorded /\ \A m : Missing(m)' <=> Missing(m)
  BY <1>1, <1>3, SameTidy
<1>5. turn' = turn /\ rec' = rec /\ Owns(r) => HeldOK(r)'
  BY <1>1, <1>3, SameHeld
<1>6. next # "busy" /\ Owns(r) => \A m \in Recorded' : ~Missing(m)'
  BY <1>1, <1>2, <1>3, <1>4 DEF HeldOK, Resting
<1> QED BY <1>1, <1>2, <1>4, <1>5, <1>6, EnsureHeld

\* A preparation that fails, and may be tried once more.
LEMMA PrepareFailHeld ==
    ASSUME ShapeInv, AnswerInv, ~overtaken, ~overtaken', NEW r \in Runtimes, PrepareFail(r)
    PROVE  AnswerInv'
<1>1. rec[r].next = "none" /\ SameAnswers /\ turn[r].stage = "preparing"
  BY DEF PrepareFail, At, SameAnswers
<1>2. TidyInv /\ TokenOK(r) /\ (Owns(r) => HeldOK(r))
  BY Holding
<1>3. TidyInv' /\ Recorded' = Recorded /\ \A m : Missing(m)' <=> Missing(m)
  BY <1>1, <1>2, SameTidy
<1>4. CASE (FinishTurn(r) \/ FinishAndDrain(r)) /\ rec' = rec
  BY <1>1, <1>3, <1>4, FinishHeld
<1>5. CASE EnsureLease(r, IF queued > 0 THEN "retry" ELSE "continue", [Idle EXCEPT !.active = turn[r].active])
  <2> DEFINE next == IF queued > 0 THEN "retry" ELSE "continue"
             waiting == [Idle EXCEPT !.active = turn[r].active]
  <2>1. next \notin {"none", "busy"}
    OBVIOUS
  <2>2. EnsureLease(r, next, waiting)
    BY <1>5
  <2> HIDE DEF next, waiting
  <2>3. turn' = turn /\ rec' = rec /\ Owns(r) => HeldOK(r)'
    BY <1>1, <1>2, SameHeld
  <2>4. Owns(r) => \A m \in Recorded' : ~Missing(m)'
    BY <1>1, <1>2, <1>3 DEF HeldOK, Resting
  <2> QED BY <1>1, <1>3, <2>1, <2>2, <2>3, <2>4, EnsureHeld
<1>6. CASE turn' = [turn EXCEPT ![r] = [Idle EXCEPT !.active = turn[r].active]] /\ UNCHANGED <<lease, rec, queued, overtaken>>
  <2>1. turn \in [Runtimes -> Actors] /\ owner' = owner /\ token' = token /\ rec' = rec
    BY <1>6 DEF ShapeInv, lease
  <2>2. turn'[r].stage = "idle" /\ \A q \in Runtimes : q # r => turn'[q] = turn[q]
    BY <1>6, <2>1 DEF Idle
  <2>3. LeaseStep(r) /\ (Owns(r)' <=> Owns(r))
    BY <2>1, <2>2 DEF LeaseStep, AnswerInv, LeaseTypes, Owns
  <2>4. TokenOK(r)'
    BY <1>1, <2>1, <2>2 DEF TokenOK, Resting
  <2>5. Owns(r) => HeldOK(r)'
    <3>1. Owns(r) => \A m \in Recorded' : ~Missing(m)'
      BY <1>1, <1>2, <1>3 DEF HeldOK, Resting
    <3> QED BY <1>1, <2>1, <2>2, <3>1 DEF HeldOK, AtTheTip
  <2>6. Held(r)'
    BY <1>3, <2>3, <2>4, <2>5 DEF Held
  <2> QED BY <1>1, <2>3, <2>6, AnswersKept
<1> QED BY <1>4, <1>5, <1>6, Zenon DEF PrepareFail

\* The handler that asked for the lease goes on when all records are settled.
LEMMA RecoverDoneHeld ==
    ASSUME ShapeInv, AnswerInv, ~overtaken, NEW r \in Runtimes, RecoverDone(r)
    PROVE  AnswerInv'
<1>1. /\ rec[r].next # "none" /\ rec[r].todo = {} /\ rec' = [rec EXCEPT ![r] = NoRecovery]
      /\ Granted(r, rec[r].next) /\ SameAnswers /\ owner' = owner /\ token' = token
  BY DEF RecoverDone, SameAnswers, lease
<1>2. TidyInv /\ TokenOK(r) /\ (Owns(r) => HeldOK(r))
  BY Holding
<1>3. TidyInv' /\ Recorded' = Recorded /\ \A m : Missing(m)' <=> Missing(m)
  BY <1>1, <1>2, SameTidy
<1>4. rec \in [Runtimes -> Recoveries]
  BY DEF ShapeInv
<1>5. rec'[r].next = "none" /\ \A q \in Runtimes : q # r => rec'[q] = rec[q]
  BY <1>1, <1>4 DEF NoRecovery
<1>6. token[r] /\ turn[r].stage = "idle"
  BY <1>1, <1>2 DEF TokenOK
<1>7. Owns(r) => \A m \in Recorded' : ~Missing(m)'
  BY <1>1, <1>2, <1>3 DEF HeldOK
<1>8. turn' = turn => TokenOK(r)'
  BY <1>1, <1>5, <1>6 DEF TokenOK, Resting
<1>9. turn' = turn /\ Owns(r) => HeldOK(r)'
  BY <1>5, <1>6, <1>7 DEF HeldOK, AtTheTip
<1> QED BY <1>1, <1>3, <1>5, <1>6, <1>7, <1>8, <1>9, GrantedHeld

\* A stream that is lost, a script that failed, and a script that starts.
LEMMA LostHeld ==
    ASSUME ShapeInv, AnswerInv, ~overtaken, NEW r \in Runtimes,
           StreamLost(r) \/ ScriptBroken(r) \/ StartPrepared(r)
    PROVE  AnswerInv'
<1>1. TidyInv /\ TokenOK(r)
  BY Holding
<1>2. CASE StreamLost(r)
  <2>1. rec[r].next = "none" /\ turn[r].stage = "streaming" /\ rec' = rec /\ SameAnswers
    BY <1>2 DEF StreamLost, At, SameAnswers, durable
  <2>2. turn[r].live
    BY <1>1, <2>1 DEF TokenOK
  <2>3. FinishTurn(r) \/ FinishAndDrain(r)
    BY <1>2, <2>2, Zenon DEF StreamLost
  <2>4. TidyInv'
    BY <1>1, <2>1, SameTidy
  <2> QED BY <2>1, <2>3, <2>4, FinishHeld
<1>3. CASE ScriptBroken(r)
  BY <1>3, FailHeld, Zenon DEF ScriptBroken, At
<1>4. CASE StartPrepared(r)
  <2>1. To(r, "starting") /\ turn[r].stage \in AtTheTip /\ UNCHANGED <<lease, rec, history, calls, made>> /\ records' = records
    BY <1>4 DEF StartPrepared, At, AtTheTip, durable
  <2>2. Recorded' = Recorded
    BY <2>1 DEF Recorded
  <2>3. "starting" \in Scripted
    BY DEF Scripted
  <2> QED BY <2>1, <2>2, <2>3, ToHeld
<1> QED BY <1>2, <1>3, <1>4

\* A turn that is cancelled, and a queue that is discarded.
LEMMA CancelHeld ==
    ASSUME ShapeInv, AnswerInv, ~overtaken, NEW r \in Runtimes, CancelTurn(r) \/ DiscardQueue(r) \/ Renew(r)
    PROVE  AnswerInv'
<1>1. TidyInv /\ TokenOK(r) /\ turn \in [Runtimes -> Actors]
  BY Holding DEF ShapeInv
<1>2. rec' = rec /\ SameAnswers
  BY DEF CancelTurn, DiscardQueue, Renew, SameAnswers, durable
<1>3. TidyInv'
  BY <1>1, <1>2, SameTidy
<1>4. CASE CancelTurn(r)
  <2>1. CASE turn' = [turn EXCEPT ![r].stop = TRUE, ![r].active = FALSE] /\ UNCHANGED lease
    <3>1. /\ \A q \in Runtimes : q # r => turn'[q] = turn[q]
          /\ turn'[r].stage = turn[r].stage /\ turn'[r].resp = turn[r].resp
          /\ turn'[r].live = turn[r].live /\ turn'[r].origin = turn[r].origin
      BY <1>1, <2>1 DEF Actors
    <3> QED BY <1>2, <2>1, <3>1, StayHeld DEF lease
  <2>2. CASE At(r, {"idle"}) /\ FinishAndDrain(r)
    BY <1>2, <1>3, <2>2, FinishHeld DEF At
  <2> QED BY <1>4, <2>1, <2>2, Zenon DEF CancelTurn
<1>5. CASE DiscardQueue(r)
  <2>1. CASE FinishTurn(r)
    BY <1>2, <1>3, <1>5, <2>1, FinishHeld DEF DiscardQueue, At
  <2>2. CASE UNCHANGED <<lease, turn>>
    BY <1>2, <2>2, StayHeld DEF lease
  <2> QED BY <1>5, <2>1, <2>2, Zenon DEF DiscardQueue
<1>6. CASE Renew(r)
  BY <1>2, <1>6, StayHeld DEF Renew
<1> QED BY <1>4, <1>5, <1>6

\* A process that crashes, is shut down, or starts.
LEMMA ProcessHeld ==
    ASSUME ShapeInv, AnswerInv, ~overtaken, NEW r \in Runtimes, Crash(r) \/ Shutdown(r) \/ Start(r)
    PROVE  AnswerInv'
<1>1. TidyInv /\ TokenOK(r) /\ turn \in [Runtimes -> Actors] /\ rec \in [Runtimes -> Recoveries]
  BY Holding DEF ShapeInv
<1>2. SameAnswers
  BY DEF Crash, Shutdown, Start, SameAnswers, durable
<1>3. CASE Crash(r)
  <2>1. rec'[r].next = "none" /\ \A q \in Runtimes : q # r => rec'[q] = rec[q]
    BY <1>1, <1>3 DEF Crash, NoRecovery
  <2> QED BY <1>2, <1>3, <2>1, DownHeld DEF Crash
<1>4. CASE Shutdown(r)
  <2>1. rec' = rec /\ rec[r].next = "none" /\ turn' = [turn EXCEPT ![r] = Down] /\ Release(r)
    BY <1>4 DEF Shutdown, At
  <2> QED BY <1>2, <2>1, DownHeld DEF Release
<1>5. CASE Start(r)
  <2>1. turn[r].stage = "down" /\ turn' = [turn EXCEPT ![r] = Idle]
    BY <1>5 DEF Start
  <2>2. turn'[r].stage = "idle" /\ \A q \in Runtimes : q # r => turn'[q] = turn[q]
    BY <1>1, <2>1, RestingStages
  <2>3. TidyInv'
    BY <1>1, <1>2, SameTidy
  <2>4. CASE Claim(r) /\ rec' = [rec EXCEPT ![r] = Listed("sweep")]
    <3>1. PICK next : next = "sweep"
      OBVIOUS
    <3> QED BY <1>2, <2>2, <2>3, <2>4, <3>1, ClaimHeld
  <2>5. CASE UNCHANGED <<lease, rec>>
    <3>1. owner' = owner /\ token' = token /\ rec' = rec
      BY <2>5 DEF lease
    <3>2. ~token[r] /\ rec[r].next = "none"
      BY <1>1, <2>1 DEF TokenOK
    <3>3. LeaseStep(r)
      BY <2>2, <3>1 DEF LeaseStep, AnswerInv, LeaseTypes
    <3>4. Held(r)'
      BY <2>2, <2>3, <3>1, <3>2 DEF Held, TokenOK, Owns, Resting
    <3> QED BY <1>2, <3>3, <3>4, AnswersKept
  <2> QED BY <1>5, <2>4, <2>5, Zenon DEF Start
<1> QED BY <1>3, <1>4, <1>5

\* A lease that expires.
LEMMA ExpireHeld == ASSUME ShapeInv, AnswerInv, Expire PROVE AnswerInv'
<1>1. SameAnswers /\ UNCHANGED <<owner, token, turn, rec, overtaken>>
  BY DEF Expire, SameAnswers, durable
<1>2. LeaseTypes'
  BY <1>1 DEF AnswerInv, LeaseTypes
<1>3. ASSUME ~overtaken' PROVE TidyInv' /\ \A r \in Runtimes : TokenOK(r)' /\ (Owns(r)' => HeldOK(r)')
  <2>1. TidyInv /\ \A r \in Runtimes : TokenOK(r) /\ (Owns(r) => HeldOK(r))
    BY <1>1, <1>3 DEF AnswerInv
  <2>2. TidyInv'
    BY <1>1, <2>1, SameTidy
  <2>3. ASSUME NEW r \in Runtimes PROVE TokenOK(r)' /\ (Owns(r)' => HeldOK(r)')
    <3>1. TokenOK(r)'
      BY <1>1, <2>1 DEF TokenOK
    <3>2. HeldOK(r) => HeldOK(r)'
      BY <1>1, <2>1, SameHeld
    <3>3. Owns(r)' <=> Owns(r)
      BY <1>1 DEF Owns
    <3> QED BY <2>1, <3>1, <3>2, <3>3
  <2> QED BY <2>2, <2>3
<1> QED BY <1>2, <1>3 DEF AnswerInv

\* A record that is open may change, and stays one.
LEMMA OpenRecorded ==
    ASSUME OpenStep
    PROVE  Recorded' = Recorded
  BY DEF OpenStep, Recorded, Open

\* ExecutionStore::finish of an open record.
LEMMA FinishedRecorded ==
    ASSUME ShapeInv, NEW m \in Responses, NEW status, CompletionAllowed(records[m].phase, status),
           records' = Finished(m, status)
    PROVE  Recorded' = Recorded
<1>1. records[m].phase \in Open
  BY CompletionOpens
<1>2. records'[m].phase = "Finished" /\ \A v \in Responses : v # m => records'[v] = records[v]
  BY DEF ShapeInv, Finished
<1> QED BY <1>1, <1>2 DEF Recorded, Open

\* finish of a script that never started.
LEMMA FinishPreparedHeld ==
    ASSUME ShapeInv, StageInv, AnswerInv, ~overtaken, NEW r \in Runtimes, NEW status,
           turn[r].stage \in {"created", "approval"}, rec[r].next = "none", FinishPrepared(r, status)
    PROVE  AnswerInv'
<1>1. TokenOK(r) /\ token[r] /\ turn[r].stage \in AtTheTip
  BY Holding DEF TokenOK, Resting, AtTheTip
<1>2. turn[r].resp \in Responses
  BY HeldResponse DEF StageInv, StageOK
<1>3. CASE FailScriptTurn(r)
  BY <1>3, FailHeld
<1>4. CASE /\ CanWrite(r) /\ CompletionAllowed(records[Resp(r)].phase, status)
           /\ records' = Finished(Resp(r), status) /\ To(r, "finished")
           /\ UNCHANGED <<lease, rec, history, calls, made>>
  <2>1. Owns(r)
    BY <1>1, <1>4, Holding
  <2>2. Recorded' = Recorded
    BY <1>2, <1>4, FinishedRecorded DEF Resp
  <2>3. "finished" \in Scripted
    BY DEF Scripted
  <2> QED BY <1>1, <1>4, <2>1, <2>2, <2>3, ToHeld
<1> QED BY <1>3, <1>4, Zenon DEF FinishPrepared

\* The steps from the record to the decision about the script.
LEMMA PreparedHeld ==
    ASSUME ShapeInv, StageInv, AnswerInv, ~overtaken, NEW r \in Runtimes, Refuse(r) \/ Prompt(r) \/ EndPending(r)
    PROVE  AnswerInv'
<1>1. turn[r].stage \in {"created", "approval"} /\ rec[r].next = "none"
  BY DEF Refuse, Prompt, EndPending, At
<1>2. TokenOK(r) /\ token[r] /\ turn[r].stage \in AtTheTip
  BY <1>1, Holding DEF TokenOK, Resting, AtTheTip
<1>3. turn[r].resp \in Responses
  BY <1>1, HeldResponse DEF StageInv, StageOK
<1>4. CASE \E status : FinishPrepared(r, status)
  BY <1>1, <1>4, FinishPreparedHeld
<1>5. CASE Prompt(r)
  <2>1. CASE FailScriptTurn(r)
    BY <1>1, <2>1, FailHeld
  <2>2. CASE /\ CanWrite(r) /\ records[Resp(r)].phase = "Prepared"
             /\ records' = [records EXCEPT ![Resp(r)].phase = "AwaitingApproval"] /\ To(r, "approval")
             /\ UNCHANGED <<lease, rec, history, calls, made>>
    <3>1. Owns(r)
      BY <1>2, <2>2, Holding
    <3>2. Recorded' = Recorded
      BY <1>3, <2>2 DEF Recorded, ShapeInv, Resp
    <3>3. "approval" \in Scripted
      BY DEF Scripted
    <3> QED BY <1>2, <2>2, <3>1, <3>2, <3>3, ToHeld
  <2> QED BY <1>5, <2>1, <2>2, Zenon DEF Prompt
<1> QED BY <1>4, <1>5, Zenon DEF Refuse, EndPending

\* The steps of the script task.
LEMMA ScriptHeld ==
    ASSUME ShapeInv, StageInv, AnswerInv, ~overtaken, NEW r \in Runtimes, MarkRunning(r) \/ FinishScript(r)
    PROVE  AnswerInv'
<1>1. turn[r].stage \in {"starting", "running"} /\ UNCHANGED <<lease, rec, history, calls, made>>
  BY DEF MarkRunning, FinishScript
<1>2. TokenOK(r) /\ token[r] /\ turn[r].stage \in AtTheTip
  BY <1>1, Holding DEF TokenOK, Resting, AtTheTip
<1>3. turn[r].resp \in Responses
  BY <1>1, HeldResponse DEF StageInv, StageOK
<1>4. {"running", "broken", "ended"} \subseteq Scripted
  BY DEF Scripted
<1>5. CASE To(r, "broken") /\ records' = records
  <2>1. Recorded' = Recorded
    BY <1>5 DEF Recorded
  <2> QED BY <1>1, <1>2, <1>4, <1>5, <2>1, ToHeld
<1>6. CASE MarkRunning(r) /\ CanWrite(r) /\ Startable(Resp(r))
  <2>1. records' = [records EXCEPT ![Resp(r)].phase = "Running"] /\ To(r, "running") /\ Owns(r)
    BY <1>2, <1>6, Holding DEF MarkRunning
  <2>2. Recorded' = Recorded
    BY <1>3, <1>6, <2>1 DEF Recorded, ShapeInv, Resp, Startable
  <2> QED BY <1>1, <1>2, <1>4, <2>1, <2>2, ToHeld
<1>7. CASE \E status : /\ CanWrite(r) /\ CompletionAllowed(records[Resp(r)].phase, status)
                       /\ records' = Finished(Resp(r), status) /\ To(r, "ended")
  <2>1. PICK status : /\ CanWrite(r) /\ CompletionAllowed(records[Resp(r)].phase, status)
                      /\ records' = Finished(Resp(r), status) /\ To(r, "ended")
    BY <1>7
  <2>2. Recorded' = Recorded
    BY <1>3, <2>1, FinishedRecorded DEF Resp
  <2>3. Owns(r)
    BY <1>2, <2>1, Holding
  <2> QED BY <1>1, <1>2, <1>4, <2>1, <2>2, <2>3, ToHeld
<1> QED BY <1>5, <1>6, <1>7, Zenon DEF MarkRunning, FinishScript

-----------------------------------------------------------------------------
(* Steps that change the answers. *)

\* The response an owner receives or runs the script of is the tip, and not answered.
LEMMA OwnTip ==
    ASSUME AnswerInv, ~overtaken, NEW r \in Runtimes, turn[r].stage \in AtTheTip, CanWrite(r)
    PROVE  /\ Owns(r) /\ token[r] /\ rec[r].next = "none" /\ owner = r
           /\ TidyInv /\ TipIs(turn[r].resp) /\ ~Linked(turn[r].resp)
<1>1. TidyInv /\ TokenOK(r) /\ token[r] /\ rec[r].next = "none"
  BY Holding DEF TokenOK, Resting, AtTheTip
<1>2. Owns(r) /\ HeldOK(r)
  BY <1>1, Holding
<1>3. TipIs(turn[r].resp)
  BY <1>1, <1>2 DEF HeldOK
<1> QED BY <1>1, <1>2, <1>3, TipUnlinked DEF Owns

\* A step of an owner that keeps the lease and goes on to another stage.
LEMMA OwnerHeld ==
    ASSUME ShapeInv, AnswerInv, ~overtaken, NEW r \in Runtimes, Owns(r), UNCHANGED <<lease, rec>>,
           NEW s \in Stages \ {"streaming", "preparing", "down"}, rec[r].next = "none",
           turn'[r].stage = s, \A q \in Runtimes : q # r => turn'[q] = turn[q],
           TidyInv',
           s \in AtTheTip => TipIs(turn[r].resp)',
           s = "completed" => calls'[turn'[r].resp] # 0,
           s = "delivered" => ResultTip',
           s \in Resting => \A m \in Recorded' : ~Missing(m)'
    PROVE  AnswerInv'
<1>1. owner' = owner /\ token' = token /\ rec' = rec /\ token[r] /\ owner = r
  BY DEF lease, Owns
<1>2. LeaseStep(r)
  BY <1>1 DEF LeaseStep, AnswerInv, LeaseTypes
<1>3. TokenOK(r)'
  BY <1>1 DEF TokenOK
<1>4. HeldOK(r)'
  <2>1. rec'[r].next = "none"
    BY <1>1
  <2> HIDE DEF AtTheTip
  <2> QED BY <2>1 DEF HeldOK
<1>5. Held(r)'
  BY <1>3, <1>4 DEF Held
<1> QED BY <1>1, <1>2, <1>5, AnswersKept

\* prepare_or_execute_script stores the record.
LEMMA CreateRecordHeld ==
    ASSUME ShapeInv, AnswerInv, ~overtaken, NEW r \in Runtimes, CreateRecord(r)
    PROVE  AnswerInv'
<1>1. turn[r].stage = "completed" /\ rec[r].next = "none" /\ turn[r].stage \in AtTheTip
  BY DEF CreateRecord, At, AtTheTip
<1>2. CASE FailScriptTurn(r)
  BY <1>1, <1>2, FailHeld
<1>3. CASE /\ CanWrite(r)
           /\ records' = [records EXCEPT ![Resp(r)] = [phase |-> "Prepared", status |-> "none"]]
           /\ To(r, "created")
           /\ UNCHANGED <<lease, rec, history, calls, made>>
  <2>1. PICK m : m = turn[r].resp
    OBVIOUS
  <2>2. Owns(r) /\ TidyInv /\ TipIs(m) /\ HeldOK(r)
    BY <1>1, <1>3, <2>1, OwnTip, Holding
  <2>3. calls[m] # 0
    BY <1>1, <2>1, <2>2 DEF HeldOK
  <2>4. \A v \in Recorded' : v \in Recorded \/ v = m
    BY <1>3, <2>1 DEF Recorded, ShapeInv, Resp
  <2>5. Tidy(history, calls, Recorded', made)
    <3>1. Tidy(history, calls, Recorded, made) /\ history # <<>> /\ IsResponse(history, Len(history), m)
      BY <2>2 DEF TidyInv, TipIs
    <3> QED BY <2>4, <3>1, RecordTidy
  <2>6. TidyInv'
    BY <1>3, <2>2, <2>3, <2>4, <2>5 DEF TidyInv
  <2>7. turn'[r].stage = "created" /\ turn'[r].resp = m /\ \A q \in Runtimes : q # r => turn'[q] = turn[q]
    BY <1>3, <2>1 DEF To, ShapeInv, Actors
  <2>8. TipIs(turn[r].resp)'
    BY <1>3, <2>2, <2>7 DEF TipIs, IsResponse
  <2>9. "created" \in Stages \ {"streaming", "preparing", "down"} /\ "created" \notin Resting
    BY DEF Stages, Resting
  <2> QED BY <1>1, <1>3, <2>2, <2>6, <2>7, <2>8, <2>9, OwnerHeld
<1> QED BY <1>2, <1>3, Zenon DEF CreateRecord

\* A response whose content is saved.
LEMMA SavedInv ==
    ASSUME ShapeInv, TidyInv, NEW m \in Responses, NEW d,
           Tidy(history, d, Recorded, made)
    PROVE  /\ Tidy(SavedAs(m, "Complete"), d, Recorded, made)
           /\ TipIs(m) => SavedAs(m, "Complete") # <<>> /\ IsResponse(SavedAs(m, "Complete"), Len(SavedAs(m, "Complete")), m)
<1>1. PICK g : g = SavedAs(m, "Complete")
  OBVIOUS
<1>2. Sound(g) /\ Sound(history)
  BY <1>1, SavedAsCarried DEF ShapeInv
<1>3. g \in Seq(Items) /\ DOMAIN g = DOMAIN history /\ history \in Seq(Items)
  BY <1>1, <1>2 DEF Sound, SavedAs
<1>4. ASSUME NEW i \in DOMAIN history
      PROVE  /\ g[i].kind = history[i].kind /\ g[i].of = history[i].of
             /\ history[i].kind = "result" => g[i] = history[i]
             /\ g[i].how = "Streaming" => history[i].how = "Streaming"
  <2>1. g[i] = IF IsResponse(history, i, m) THEN Response(m, "Complete") ELSE history[i]
    BY <1>1 DEF SavedAs
  <2> QED BY <2>1 DEF IsResponse, Response
<1>5. Tidy(g, d, Recorded, made)
  BY <1>3, <1>4, SavedTidy
<1>6. ASSUME TipIs(m) PROVE g # <<>> /\ IsResponse(g, Len(g), m)
  <2>1. Len(g) = Len(history) /\ Len(history) \in DOMAIN history /\ g # <<>>
    BY <1>3, <1>6 DEF TipIs
  <2> QED BY <1>4, <1>6, <2>1 DEF TipIs, IsResponse
<1> QED BY <1>1, <1>5, <1>6

\* A response at the tip that is rolled back.
LEMMA FrontInv ==
    ASSUME TidyInv, NEW m, TipIs(m)
    PROVE  Tidy(Front(history), calls, Recorded, made)
<1>1. history # <<>> /\ history[Len(history)].kind = "response" /\ Tidy(history, calls, Recorded, made)
  BY DEF TipIs, IsResponse, TidyInv
<1> QED BY <1>1, FrontTidy

\* The end of a stream that had no calls.
LEMMA StreamHeldOK ==
    ASSUME ShapeInv, StageInv, AnswerInv, ~overtaken, NEW r \in Runtimes,
           CompleteText(r) \/ StreamFail(r) \/ CancelStream(r)
    PROVE  AnswerInv'
<1>1. turn[r].stage = "streaming" /\ CanWrite(r) /\ rec' = rec /\ UNCHANGED <<calls, records, made>>
  BY DEF CompleteText, StreamFail, CancelStream, StreamHeld, At
<1>2. turn[r].stage \in AtTheTip
  BY <1>1 DEF AtTheTip
<1>3. PICK m : m = turn[r].resp
  OBVIOUS
<1>4. Owns(r) /\ TidyInv /\ TipIs(m) /\ rec[r].next = "none"
  BY <1>1, <1>2, <1>3, OwnTip
<1>5. m \in Responses
  BY <1>1, <1>3, StreamingResponse
<1>6. Recorded' = Recorded
  BY <1>1 DEF Recorded
<1>7. FinishAndDrain(r) /\ (history' = SavedAs(m, "Complete") \/ history' = Front(history))
  BY <1>3, <1>4, Zenon DEF CompleteText, StreamFail, CancelStream, Resp
<1>8. Tidy(history', calls, Recorded, made)
  <2>1. Tidy(history, calls, Recorded, made)
    BY <1>4 DEF TidyInv
  <2> QED BY <1>4, <1>5, <1>7, <2>1, SavedInv, FrontInv
<1>9. TidyInv'
  BY <1>1, <1>4, <1>6, <1>8 DEF TidyInv
<1> QED BY <1>1, <1>4, <1>7, <1>9, FinishHeld

\* The first result of the response at the tip.
LEMMA AppendInv ==
    ASSUME ShapeInv, TidyInv, NEW m \in Responses, TipIs(m), NEW s \in Statuses, NEW d,
           Tidy(history, d, Recorded, made), d[m] \in Nat \ {0}
    PROVE  LET g == Append(history, Result(m, 1, m, s))
           IN  /\ Tidy(g, d, Recorded, made) /\ g # <<>> /\ g[Len(g)].kind = "result"
               /\ \A i \in DOMAIN history : i \in DOMAIN g /\ g[i] = history[i]
               /\ \A i \in DOMAIN g : i \in DOMAIN history \/ g[i].kind = "result"
<1>1. PICK x : x = Result(m, 1, m, s)
  OBVIOUS
<1>2. x \in Items /\ x.kind = "result"
  <2>1. m \in 0..MaxResponses /\ 1 \in 0..MaxCalls
    BY ResponsesType, ScriptTurnAssumption
  <2> QED BY <1>1, <2>1, ResultItem
<1>3. PICK g : g = Append(history, x)
  OBVIOUS
<1>4. history \in Seq(Items) /\ history # <<>> /\ IsResponse(history, Len(history), m)
  BY DEF TipIs, ShapeInv, Sound
<1>5. Tidy(g, d, Recorded, made)
  <2>1. s # "Streaming" /\ Result(m, 1, m, s) \in Items
    BY <1>1, <1>2 DEF Statuses
  <2> QED BY <1>1, <1>3, <1>4, <2>1, AppendedTidy
<1>6. /\ Len(g) = Len(history) + 1 /\ g[Len(history) + 1] = x /\ g # <<>>
      /\ \A i \in 1..Len(history) : g[i] = history[i]
  BY <1>2, <1>3, <1>4, AppendProperties
<1>7. /\ DOMAIN history = 1..Len(history) /\ Len(history) \in Nat
      /\ DOMAIN g = 1..Len(g) /\ g \in Seq(Items)
  BY <1>4, <1>5 DEF Tidy
<1>8. \A i \in DOMAIN g : i \in DOMAIN history \/ i = Len(history) + 1
  BY <1>6, <1>7
<1>9. \A i \in DOMAIN history : i \in DOMAIN g
  BY <1>6, <1>7
<1> QED BY <1>1, <1>2, <1>3, <1>5, <1>6, <1>7, <1>8, <1>9

\* A stream that ends, or is cancelled, with script calls.
LEMMA CallsHeld ==
    ASSUME ShapeInv, StageInv, AnswerInv, ~overtaken, NEW r \in Runtimes, CompleteCalls(r) \/ CancelCalls(r)
    PROVE  AnswerInv'
<1>1. turn[r].stage = "streaming" /\ CanWrite(r) /\ UNCHANGED <<lease, rec, records, made>>
  BY DEF CompleteCalls, CancelCalls, StreamHeld, At
<1>2. PICK m : m = turn[r].resp
  OBVIOUS
<1>3. Owns(r) /\ TidyInv /\ TipIs(m) /\ rec[r].next = "none"
  BY <1>1, <1>2, OwnTip DEF AtTheTip
<1>4. m \in Responses /\ Recorded' = Recorded
  BY <1>1, <1>2, StreamingResponse DEF Recorded
<1>5. PICK k \in 1..MaxCalls : calls' = [calls EXCEPT ![m] = k]
  BY <1>2, Zenon DEF CompleteCalls, CancelCalls, Resp
<1>6. calls'[m] \in Nat \ {0} /\ \A v \in Responses : v # m => calls'[v] = calls[v]
  BY <1>4, <1>5, ResponsesType DEF ShapeInv
<1>7. Tidy(history, calls', Recorded, made)
  <2>1. Tidy(history, calls, Recorded, made) /\ history # <<>> /\ IsResponse(history, Len(history), m)
    BY <1>3 DEF TidyInv, TipIs
  <2>2. \A v \in 1..made : v # m => calls'[v] = calls[v]
    BY <1>6, MadeResponses
  <2> QED BY <2>1, <2>2, CallsTidy
<1>8. \A v \in Recorded : calls'[v] # 0
  BY <1>3, <1>6 DEF TidyInv, Recorded
<1>9. /\ turn'[r].stage \in {"completed", "cancelling"} /\ turn'[r].resp = m
      /\ \A q \in Runtimes : q # r => turn'[q] = turn[q]
  BY <1>2 DEF CompleteCalls, CancelCalls, To, ShapeInv, Actors
<1>10. CASE CompleteCalls(r)
  <2>1. history' = SavedAs(m, "Complete") /\ turn'[r].stage = "completed"
    BY <1>2, <1>10 DEF CompleteCalls, Resp, ShapeInv, Actors
  <2>2. Tidy(history', calls', Recorded, made) /\ history' # <<>> /\ IsResponse(history', Len(history'), m)
    BY <1>3, <1>4, <1>7, <2>1, SavedInv
  <2>3. TidyInv' /\ TipIs(turn[r].resp)'
    BY <1>1, <1>4, <1>8, <1>9, <2>2 DEF TidyInv, TipIs
  <2>4. "completed" \in Stages \ {"streaming", "preparing", "down"} /\ "completed" \notin Resting
    BY DEF Stages, Resting
  <2> QED BY <1>1, <1>3, <1>6, <1>9, <2>1, <2>3, <2>4, OwnerHeld
<1>11. CASE CancelCalls(r)
  <2>1. history' = Append(history, Result(m, 1, m, "Cancelled")) /\ turn'[r].stage = "cancelling"
    BY <1>2, <1>11 DEF CancelCalls, Resp, To, ShapeInv, Actors
  <2>2. PICK s \in Statuses : s = "Cancelled"
    BY DEF Statuses
  <2>3. Tidy(history', calls', Recorded, made)
    BY <1>3, <1>4, <1>6, <1>7, <2>1, <2>2, AppendInv
  <2>4. TidyInv'
    BY <1>1, <1>4, <1>8, <2>3 DEF TidyInv
  <2>5. "cancelling" \in Stages \ {"streaming", "preparing", "down"} /\ "cancelling" \notin Resting \cup AtTheTip
    BY DEF Stages, Resting, AtTheTip
  <2> QED BY <1>1, <1>3, <1>9, <2>1, <2>4, <2>5, OwnerHeld
<1> QED BY <1>10, <1>11

\* A step of a recovery that goes on.
LEMMA RecoveringHeld ==
    ASSUME ShapeInv, AnswerInv, ~overtaken, NEW r \in Runtimes, UNCHANGED <<lease, turn>>,
           RecStep(r), rec[r].next # "none", rec'[r].next = rec[r].next, TidyInv', SameAnswers \/ Owns(r),
           Owns(r) => \A m \in Recorded' : Missing(m)' => m \in rec'[r].todo,
           Owns(r) /\ rec'[r].at = "append" => Due(r)' \in Recorded' /\ Reachable(Due(r))'
    PROVE  AnswerInv'
<1>1. owner' = owner /\ token' = token /\ turn' = turn /\ (Owns(r)' <=> Owns(r))
  BY DEF lease, Owns
<1>2. LeaseStep(r)
  BY <1>1 DEF LeaseStep, AnswerInv, LeaseTypes, RecStep
<1>3. TokenOK(r)
  BY Holding
<1>4. TokenOK(r)'
  BY <1>1, <1>3 DEF TokenOK
<1>5. Owns(r)' => HeldOK(r)'
  BY <1>1 DEF HeldOK
<1>6. Held(r)'
  BY <1>4, <1>5 DEF Held
<1>7. SameAnswers \/ owner' \in {NoOne, r}
  BY <1>1 DEF Owns
<1> QED BY <1>2, <1>6, <1>7, AnswersKept

\* A recovery looks at a record.
LEMMA RecoverRecordHeld ==
    ASSUME ShapeInv, RecInv, AnswerInv, ~overtaken, NEW r \in Runtimes, RecoverRecord(r)
    PROVE  AnswerInv'
<1>2. PICK m : m = Due(r)
  OBVIOUS
<1>3. rec[r].next # "none" /\ rec[r].todo # {} /\ m \in Responses
  BY <1>2, DueResponse DEF RecoverRecord, Recovering
<1>4. TidyInv /\ TokenOK(r) /\ token[r] /\ (Owns(r) => HeldOK(r))
  BY <1>3, Holding DEF TokenOK
<1>5. Owns(r) => \A v \in Recorded : Missing(v) => v \in rec[r].todo
  BY <1>3, <1>4 DEF HeldOK
<1>6. rec \in [Runtimes -> Recoveries]
  BY DEF ShapeInv
<1>7. CASE ~Reachable(m) /\ RecoverNext(r) /\ UNCHANGED <<lease, turn, durable, made>>
  <2>1. RecStep(r) /\ rec'[r].at = "look" /\ rec'[r].next = rec[r].next /\ rec'[r].todo = rec[r].todo \ {m}
    BY <1>2, <1>6, <1>7, RecoverNextFacts DEF RecoverNext, Recoveries
  <2>2. SameAnswers
    BY <1>7 DEF SameAnswers, durable
  <2>3. TidyInv' /\ Recorded' = Recorded /\ \A v : Missing(v)' <=> Missing(v)
    BY <1>4, <2>2, SameTidy
  <2>4. Owns(r) => \A v \in Recorded' : Missing(v)' => v \in rec'[r].todo
    BY <1>5, <1>7, <2>1, <2>3 DEF Missing
  <2> QED BY <1>3, <1>7, <2>1, <2>2, <2>3, <2>4, RecoveringHeld
<1>8. CASE Reachable(m) /\ Linked(m) /\ RecoverTo(r, "skip") /\ UNCHANGED <<lease, turn, durable, made>>
  <2>1. PICK at \in {"look", "append", "skip"} : at = "skip"
    OBVIOUS
  <2>2. RecStep(r) /\ rec'[r].at = "skip" /\ rec'[r].todo = rec[r].todo
    BY <1>8, <2>1, RecoverToFacts
  <2>3. rec'[r].next = rec[r].next
    BY <1>6, <1>8 DEF RecoverTo, Recoveries
  <2>4. SameAnswers
    BY <1>8 DEF SameAnswers, durable
  <2>5. TidyInv' /\ Recorded' = Recorded /\ \A v : Missing(v)' <=> Missing(v)
    BY <1>4, <2>4, SameTidy
  <2> QED BY <1>3, <1>5, <1>8, <2>2, <2>3, <2>4, <2>5, RecoveringHeld
<1>9. CASE /\ Reachable(m) /\ ~Linked(m) /\ RecoverTo(r, "append") /\ UNCHANGED <<lease, turn, history, calls, made>>
           /\ Recorded' = Recorded /\ m \in Recorded /\ (records' = records \/ Owns(r))
  <2>1. PICK at \in {"look", "append", "skip"} : at = "append"
    OBVIOUS
  <2>2. RecStep(r) /\ rec'[r].at = "append" /\ rec'[r].todo = rec[r].todo
    BY <1>9, <2>1, RecoverToFacts
  <2>3. rec'[r].next = rec[r].next
    BY <1>6, <1>9 DEF RecoverTo, Recoveries
  <2>4. \A v : (Missing(v)' <=> Missing(v)) /\ (Reachable(v)' <=> Reachable(v))
    BY <1>9 DEF Missing, Reachable, Linked, IsResponse, IsResult
  <2>5. TidyInv'
    BY <1>4, <1>9 DEF TidyInv
  <2>6. SameAnswers \/ Owns(r)
    BY <1>9 DEF SameAnswers
  <2>7. Due(r)' = m
    BY <1>2, <2>2 DEF Due
  <2>8. Due(r)' \in Recorded' /\ Reachable(Due(r))'
    BY <1>9, <2>4, <2>7 DEF Reachable
  <2>9. Owns(r) => \A v \in Recorded' : Missing(v)' => v \in rec'[r].todo
    BY <1>5, <1>9, <2>2, <2>4
  <2> QED BY <1>3, <1>9, <2>2, <2>3, <2>5, <2>6, <2>8, <2>9, RecoveringHeld
<1>10. CASE RecoverFail(r)
  BY <1>3, <1>10, RecoverFailHeld
<1>11. CASE /\ Reachable(m) /\ ~Linked(m) /\ rec[r].seen[m] = "Finished" /\ RecoverTo(r, "append")
            /\ UNCHANGED <<lease, turn, durable, made>>
  <2>1. records[m].phase = "Finished"
    BY <1>3, <1>11 DEF RecInv, RecOK
  <2>2. UNCHANGED <<lease, turn, history, calls, records, made>>
    BY <1>11 DEF durable
  <2>3. Recorded' = Recorded /\ m \in Recorded
    BY <1>3, <2>1, <2>2 DEF Recorded
  <2> QED BY <1>9, <1>11, <2>2, <2>3
<1>12. CASE /\ Reachable(m) /\ ~Linked(m) /\ CanWrite(r)
            /\ \E status : CompletionAllowed(records[m].phase, status) /\ records' = Finished(m, status)
            /\ RecoverTo(r, "append") /\ UNCHANGED <<lease, turn, history, calls, made>>
  <2>1. PICK status : CompletionAllowed(records[m].phase, status) /\ records' = Finished(m, status)
    BY <1>12
  <2>2. Recorded' = Recorded
    BY <1>3, <2>1, FinishedRecorded
  <2>3. m \in Recorded
    BY <1>3, <2>1, CompletionOpens DEF Recorded, Open
  <2>4. Owns(r)
    BY <1>4, <1>12, Holding
  <2> QED BY <1>9, <1>12, <2>2, <2>3, <2>4
<1> QED BY <1>2, <1>7, <1>8, <1>10, <1>11, <1>12, Zenon DEF RecoverRecord

\* The result of the response at the tip.
LEMMA DeliveredInv ==
    ASSUME ShapeInv, TidyInv, NEW m \in Recorded, TipIs(m), ~Linked(m), history' = AppendResult(m),
           UNCHANGED <<calls, records, made>>
    PROVE  /\ TidyInv' /\ ResultTip' /\ Recorded' = Recorded
           /\ \A v : Missing(v)' => Missing(v)
<1>1. history' = Append(history, Result(m, 1, m, records[m].status))
  BY Zenon DEF AppendResult
<1>2. PICK s : s = records[m].status
  OBVIOUS
<1>3. m \in Responses /\ s \in Statuses /\ calls[m] \in Nat \ {0}
  <2>1. calls[m] \in 0..MaxCalls /\ calls[m] # 0
    BY DEF Recorded, ShapeInv, TidyInv
  <2> QED BY <1>2, <2>1, ResponsesType DEF Recorded, ShapeInv
<1>4. Tidy(history, calls, Recorded, made)
  BY DEF TidyInv
<1>5. /\ Tidy(history', calls, Recorded, made) /\ history' # <<>> /\ history'[Len(history')].kind = "result"
      /\ \A i \in DOMAIN history : i \in DOMAIN history' /\ history'[i] = history[i]
      /\ \A i \in DOMAIN history' : i \in DOMAIN history \/ history'[i].kind = "result"
  BY <1>1, <1>2, <1>3, <1>4, AppendInv
<1>6. Recorded' = Recorded
  BY DEF Recorded
<1>7. TidyInv'
  BY <1>5, <1>6 DEF TidyInv
<1>8. \A v : Missing(v)' => Missing(v)
  BY <1>5, LinksExtended
<1> QED BY <1>5, <1>6, <1>7, <1>8 DEF ResultTip

\* The recovery delivers a result that is missing.
LEMMA RecoverResultHeld ==
    ASSUME ShapeInv, AnswerInv, ~overtaken, NEW r \in Runtimes, RecoverResult(r)
    PROVE  AnswerInv'
<1>1. rec[r].next # "none" /\ rec[r].todo # {} /\ rec[r].at = "append"
  BY DEF RecoverResult, Recovering
<1>2. TidyInv /\ TokenOK(r) /\ token[r] /\ (Owns(r) => HeldOK(r)) /\ rec \in [Runtimes -> Recoveries]
  BY <1>1, Holding DEF TokenOK, ShapeInv
<1>3. CASE RecoverFail(r)
  BY <1>1, <1>3, RecoverFailHeld
<1>4. CASE /\ CanWrite(r) \/ AppendResult(Due(r)) = history
           /\ history' = AppendResult(Due(r)) /\ RecoverTo(r, "skip")
           /\ UNCHANGED <<lease, turn, calls, records, made>>
  <2>1. PICK at \in {"look", "append", "skip"} : at = "skip"
    OBVIOUS
  <2>2. RecStep(r) /\ rec'[r].at = "skip" /\ rec'[r].todo = rec[r].todo
    BY <1>4, <2>1, RecoverToFacts
  <2>3. rec'[r].next = rec[r].next
    BY <1>2, <1>4 DEF RecoverTo, Recoveries
  <2>4. CASE history' = history
    <3>1. SameAnswers
      BY <1>4, <2>4 DEF SameAnswers
    <3>2. TidyInv' /\ Recorded' = Recorded /\ \A v : Missing(v)' <=> Missing(v)
      BY <1>2, <3>1, SameTidy
    <3>3. Owns(r) => \A v \in Recorded' : Missing(v)' => v \in rec'[r].todo
      BY <1>1, <1>2, <2>2, <3>2 DEF HeldOK
    <3> QED BY <1>1, <1>4, <2>2, <2>3, <3>1, <3>2, <3>3, RecoveringHeld
  <2>5. CASE history' # history
    <3>1. Owns(r) /\ HeldOK(r)
      BY <1>2, <1>4, <2>5, Holding
    <3>2. PICK m : m = Due(r)
      OBVIOUS
    <3>3. m \in Recorded /\ Reachable(m) /\ ~Linked(m)
      BY <1>1, <1>4, <2>5, <3>1, <3>2 DEF HeldOK, AppendResult
    <3>4. TipIs(m)
      BY <1>2, <3>3, MissingTip DEF Missing
    <3>5. TidyInv' /\ Recorded' = Recorded /\ \A v : Missing(v)' => Missing(v)
      BY <1>2, <1>4, <3>2, <3>3, <3>4, DeliveredInv
    <3>6. \A v \in Recorded' : Missing(v)' => v \in rec'[r].todo
      BY <1>1, <2>2, <3>1, <3>5 DEF HeldOK
    <3> QED BY <1>1, <1>4, <2>2, <2>3, <3>1, <3>5, <3>6, RecoveringHeld
  <2> QED BY <2>4, <2>5
<1> QED BY <1>3, <1>4, Zenon DEF RecoverResult

\* A recovery that answers the skipped calls of a result.
LEMMA RecoverSkippedHeld ==
    ASSUME ShapeInv, RecInv, AnswerInv, ~overtaken, NEW r \in Runtimes, RecoverSkipped(r)
    PROVE  AnswerInv'
<1>1. rec[r].next # "none" /\ rec[r].todo # {} /\ rec[r].at = "skip"
  BY DEF RecoverSkipped, Recovering
<1>2. TidyInv /\ TokenOK(r) /\ token[r] /\ (Owns(r) => HeldOK(r)) /\ rec \in [Runtimes -> Recoveries]
  BY <1>1, Holding DEF TokenOK, ShapeInv
<1>3. PICK m : m = Due(r)
  OBVIOUS
<1>4. Linked(m)
  BY <1>1, <1>3 DEF RecInv, RecOK, Due
<1>5. PICK g : g = AnswerSkippedCalls(history, ResultAt(m))
  OBVIOUS
<1>6. /\ Tidy(g, calls, Recorded, made)
      /\ \A i \in DOMAIN history : i \in DOMAIN g /\ g[i] = history[i]
      /\ \A i \in DOMAIN g : i \in DOMAIN history \/ g[i].kind = "result"
  BY <1>2, <1>4, <1>5, AnswerTidy
<1>7. CASE RecoverFail(r)
  BY <1>1, <1>7, RecoverFailHeld
<1>8. CASE /\ CanWrite(r) \/ g = history
           /\ history' = g /\ RecoverNext(r)
           /\ UNCHANGED <<lease, turn, calls, records, made>>
  <2>1. RecStep(r) /\ rec'[r].at = "look" /\ rec'[r].next = rec[r].next /\ rec'[r].todo = rec[r].todo \ {m}
    <3>1. rec \in [Runtimes -> Recoveries] /\ RecoverNext(r)
      BY <1>2, <1>8
    <3> QED BY <1>3, <3>1, RecoverNextFacts DEF RecoverNext, Recoveries
  <2>2. Recorded' = Recorded
    BY <1>8 DEF Recorded
  <2>3. TidyInv'
    BY <1>2, <1>6, <1>8, <2>2 DEF TidyInv
  <2>4. Linked(m)' /\ \A v : Missing(v)' => Missing(v)
    BY <1>4, <1>6, <1>8, LinksExtended
  <2>5. Owns(r) => \A v \in Recorded' : Missing(v)' => v \in rec'[r].todo
    <3>1. SUFFICES ASSUME Owns(r), NEW v \in Recorded, Missing(v)' PROVE v \in rec[r].todo \ {m}
      BY <2>1, <2>2
    <3>2. v \in rec[r].todo
      BY <1>1, <1>2, <2>4, <3>1 DEF HeldOK
    <3>3. v # m
      BY <2>4, <3>1 DEF Missing, Linked
    <3> QED BY <3>2, <3>3
  <2>6. SameAnswers \/ Owns(r)
    <3>1. g # history => Owns(r)
      BY <1>2, <1>8, Holding
    <3> QED BY <1>8, <3>1 DEF SameAnswers
  <2> QED BY <1>1, <1>8, <2>1, <2>3, <2>5, <2>6, RecoveringHeld
<1> QED BY <1>3, <1>5, <1>7, <1>8, Zenon DEF RecoverSkipped

\* The end of a sweep.
LEMMA SweepDoneHeld ==
    ASSUME ShapeInv, AnswerInv, ~overtaken, NEW r \in Runtimes, SweepDone(r)
    PROVE  AnswerInv'
<1>1. /\ rec' = [rec EXCEPT ![r] = NoRecovery] /\ FinishTurn(r) /\ UNCHANGED <<calls, records, made>>
      /\ history' = IF Owns(r) THEN RecoverInterruptedStream(history) ELSE history
  BY Zenon DEF SweepDone
<1>2. TidyInv /\ Sound(history) /\ calls \in [Responses -> 0..MaxCalls]
  BY Holding DEF ShapeInv
<1>3. Tidy(history, calls, Recorded, made) /\ Recorded' = Recorded
  BY <1>1, <1>2 DEF TidyInv, Recorded
<1>4. Tidy(RecoverInterruptedStream(history), calls, Recorded, made)
  BY <1>2, <1>3, RecoveredTidy
<1>5. TidyInv'
  BY <1>1, <1>2, <1>3, <1>4 DEF TidyInv
<1>6. SameAnswers \/ Owns(r)
  BY <1>1 DEF SameAnswers
<1> QED BY <1>1, <1>5, <1>6, FinishHeld

\* finalize_script_turn links the result.
LEMMA DeliverResultHeld ==
    ASSUME ShapeInv, StageInv, AnswerInv, ~overtaken, NEW r \in Runtimes, DeliverResult(r)
    PROVE  AnswerInv'
<1>1. turn[r].stage \in {"ended", "finished"} /\ rec[r].next = "none"
  BY DEF DeliverResult, At
<1>2. TidyInv /\ TokenOK(r) /\ turn[r].stage \in AtTheTip
  BY <1>1, Holding DEF AtTheTip
<1>3. token[r]
  BY <1>1, <1>2 DEF TokenOK, Resting
<1>4. PICK m : m = turn[r].resp
  OBVIOUS
<1>5. m \in Recorded
  <2>1. turn[r].resp # 0 /\ records[m].phase = "Finished"
    BY <1>1, <1>4 DEF StageInv, StageOK
  <2> QED BY <1>4, <2>1, HeldResponse DEF Recorded
<1>6. CASE FailScriptTurn(r)
  BY <1>1, <1>6, FailHeld
<1>7. CASE /\ CanWrite(r) \/ Linked(m)
           /\ history' = AppendResult(m) /\ To(r, "delivered")
           /\ UNCHANGED <<lease, rec, calls, records, made>>
  <2>1. turn'[r].stage = "delivered" /\ turn'[r].resp = m /\ \A q \in Runtimes : q # r => turn'[q] = turn[q]
    BY <1>4, <1>7 DEF To, ShapeInv, Actors
  <2>2. CASE CanWrite(r)
    <3>1. Owns(r) /\ TipIs(m) /\ ~Linked(m)
      BY <1>2, <1>4, <2>2, OwnTip
    <3>2. TidyInv' /\ ResultTip'
      BY <1>2, <1>5, <1>7, <3>1, DeliveredInv
    <3>3. "delivered" \in Stages \ {"streaming", "preparing", "down"} /\ "delivered" \notin Resting \cup AtTheTip
      BY DEF Stages, Resting, AtTheTip
    <3> QED BY <1>1, <1>7, <2>1, <3>1, <3>2, <3>3, OwnerHeld
  <2>3. CASE ~CanWrite(r)
    <3>1. history' = history /\ owner' = owner /\ token' = token /\ rec' = rec
      BY <1>7, <2>3, Zenon DEF AppendResult, lease
    <3>2. SameAnswers /\ ~Owns(r) /\ ~Owns(r)'
      BY <1>3, <1>7, <2>3, <3>1 DEF SameAnswers, CanWrite, Owns
    <3>3. TidyInv'
      BY <1>2, <3>2, SameTidy
    <3>4. LeaseStep(r)
      BY <2>1, <3>1 DEF LeaseStep, AnswerInv, LeaseTypes
    <3>5. Held(r)'
      BY <1>1, <1>3, <2>1, <3>1, <3>2, <3>3 DEF Held, TokenOK
    <3> QED BY <3>2, <3>4, <3>5, AnswersKept
  <2> QED BY <2>2, <2>3
<1> QED BY <1>4, <1>6, <1>7, Zenon DEF DeliverResult, Resp

\* cancel_streaming_message answers the other calls and completes the response.
LEMMA CancelAnswerHeld ==
    ASSUME ShapeInv, StageInv, AnswerInv, ~overtaken, NEW r \in Runtimes, CancelAnswer(r)
    PROVE  AnswerInv'
<1>1. turn[r].stage = "cancelling" /\ rec[r].next = "none" /\ rec' = rec /\ UNCHANGED <<calls, records, made>>
  BY DEF CancelAnswer, At
<1>2. TidyInv /\ token[r]
  BY <1>1, Holding DEF TokenOK, Resting
<1>3. PICK m : m = turn[r].resp
  OBVIOUS
<1>4. m \in Responses /\ Linked(m)
  BY <1>1, <1>3, StreamingResponse DEF StageInv, StageOK
<1>5. Recorded' = Recorded
  BY <1>1 DEF Recorded
<1>6. CASE ~CanWrite(r)
  <2>1. FinishTurn(r) /\ SameAnswers
    BY <1>1, <1>6 DEF CancelAnswer, SameAnswers
  <2>2. TidyInv'
    BY <1>2, <2>1, SameTidy
  <2> QED BY <1>1, <2>1, <2>2, FinishHeld
<1>7. CASE CanWrite(r)
  <2>1. PICK g : g = AnswerSkippedCalls(history, ResultAt(m))
    OBVIOUS
  <2>2. /\ history' = [i \in DOMAIN g |-> IF IsResponse(g, i, m) THEN Response(m, "Complete") ELSE g[i]]
        /\ FinishAndDrain(r)
    BY <1>3, <1>7, <2>1, Zenon DEF CancelAnswer, Resp
  <2>3. Tidy(g, calls, Recorded, made)
    BY <1>2, <1>4, <2>1, AnswerTidy
  <2>4. Sound(g) /\ Carried(history, g)
    BY <1>4, <2>1, AnsweredCarried
  <2>5. Sound(history')
    <3>1. PICK h, s : h = history /\ s = "Complete"
      OBVIOUS
    <3>2. s \in Statuses \cup {"Streaming", "Complete"} /\ Carried(h, g)
      BY <2>4, <3>1
    <3> DEFINE e == [i \in DOMAIN g |-> IF IsResponse(g, i, m) THEN Response(m, s) ELSE g[i]]
    <3>3. Sound(e) /\ Carried(h, e)
      BY <1>4, <2>4, <3>2, SavedCarried, Zenon
    <3>4. history' = e
      BY <2>2, <3>1, Zenon
    <3> QED BY <3>3, <3>4
  <2>6. history' \in Seq(Items) /\ DOMAIN history' = DOMAIN g /\ g \in Seq(Items)
    BY <2>2, <2>4, <2>5 DEF Sound
  <2>7. ASSUME NEW i \in DOMAIN g
        PROVE  /\ history'[i].kind = g[i].kind /\ history'[i].of = g[i].of
               /\ g[i].kind = "result" => history'[i] = g[i]
               /\ history'[i].how = "Streaming" => g[i].how = "Streaming"
    <3>1. history'[i] = IF IsResponse(g, i, m) THEN Response(m, "Complete") ELSE g[i]
      BY <2>2
    <3> QED BY <3>1 DEF IsResponse, Response
  <2>8. Tidy(history', calls, Recorded, made)
    BY <2>3, <2>6, <2>7, SavedTidy
  <2>9. TidyInv' /\ Owns(r)
    BY <1>1, <1>2, <1>5, <1>7, <2>8, Holding DEF TidyInv
  <2> QED BY <1>1, <2>2, <2>9, FinishHeld
<1> QED BY <1>6, <1>7

\* finalize_script_turn answers the skipped calls, and the turn ends or continues.
LEMMA FinalizeHeld ==
    ASSUME ShapeInv, StageInv, AnswerInv, ~overtaken, ~overtaken', NEW r \in Runtimes, FinalizeScriptTurn(r)
    PROVE  AnswerInv'
<1>1. turn[r].stage = "delivered" /\ rec[r].next = "none"
  BY DEF FinalizeScriptTurn, At
<1>2. TidyInv /\ TokenOK(r) /\ (Owns(r) => HeldOK(r))
  BY Holding
<1>3. token[r]
  BY <1>1, <1>2 DEF TokenOK, Resting
<1>4. PICK m : m = turn[r].resp
  OBVIOUS
<1>5. Linked(m)
  BY <1>1, <1>4 DEF StageInv, StageOK
<1>6. PICK g : g = AnswerSkippedCalls(history, ResultAt(m))
  OBVIOUS
<1>7. CASE FailScriptTurn(r)
  BY <1>1, <1>7, FailHeld
<1>8. CASE /\ CanWrite(r) \/ g = history
           /\ history' = g /\ UNCHANGED <<calls, records, made>>
           /\ \/ FinishAndDrain(r) /\ UNCHANGED <<rec, queued, overtaken>>
              \/ EnsureLease(r, IF queued > 0 THEN "intercept" ELSE "continue", [Idle EXCEPT !.active = turn[r].active])
              \/ /\ ~Owns(r) /\ turn' = [turn EXCEPT ![r] = [Idle EXCEPT !.active = turn[r].active]]
                 /\ UNCHANGED <<lease, rec, queued, overtaken>>
  <2>1. Recorded' = Recorded
    BY <1>8 DEF Recorded
  <2>2. Tidy(g, calls, Recorded, made) /\ (ResultTip => g # <<>> /\ g[Len(g)].kind = "result")
    BY <1>2, <1>5, <1>6, AnswerTidy
  <2>3. TidyInv'
    BY <1>2, <1>8, <2>1, <2>2 DEF TidyInv
  <2>4. Owns(r) \/ SameAnswers
    <3>1. CanWrite(r) => Owns(r)
      BY <1>3, Holding
    <3> QED BY <1>8, <3>1 DEF SameAnswers
  <2>5. Owns(r) => ResultTip'
    BY <1>1, <1>2, <1>8, <2>2 DEF HeldOK, ResultTip
  <2>6. Owns(r) => \A v \in Recorded' : ~Missing(v)'
    <3>1. /\ \A i \in DOMAIN history : i \in DOMAIN history' /\ history'[i] = history[i]
          /\ \A i \in DOMAIN history' : i \in DOMAIN history \/ history'[i].kind = "result"
      BY <1>2, <1>5, <1>6, <1>8, AnswerTidy
    <3>2. \A v : Missing(v)' => Missing(v)
      BY <3>1, LinksExtended
    <3>3. Owns(r) => ResultTip
      BY <1>1, <1>2 DEF HeldOK
    <3> QED BY <1>2, <2>1, <3>2, <3>3, NoneMissing
  <2>7. CASE FinishAndDrain(r) /\ rec' = rec
    BY <1>1, <2>3, <2>4, <2>7, FinishHeld
  <2>8. CASE EnsureLease(r, IF queued > 0 THEN "intercept" ELSE "continue", [Idle EXCEPT !.active = turn[r].active])
    <3> DEFINE next == IF queued > 0 THEN "intercept" ELSE "continue"
               waiting == [Idle EXCEPT !.active = turn[r].active]
    <3>1. next # "none" /\ EnsureLease(r, next, waiting)
      BY <2>8
    <3> HIDE DEF next, waiting
    <3>2. turn' = turn /\ rec' = rec /\ Owns(r) => HeldOK(r)'
      <4>1. "delivered" \notin Resting \cup AtTheTip
        BY DEF Resting, AtTheTip
      <4> QED BY <1>1, <2>5, <4>1 DEF HeldOK
    <3> QED BY <1>1, <2>3, <2>4, <2>6, <3>1, <3>2, EnsureHeld
  <2>9. CASE /\ ~Owns(r) /\ turn' = [turn EXCEPT ![r] = [Idle EXCEPT !.active = turn[r].active]]
             /\ UNCHANGED <<lease, rec>>
    <3>1. turn \in [Runtimes -> Actors] /\ owner' = owner /\ token' = token /\ rec' = rec
      BY <2>9 DEF ShapeInv, lease
    <3>2. turn'[r].stage = "idle" /\ \A q \in Runtimes : q # r => turn'[q] = turn[q]
      BY <2>9, <3>1 DEF Idle
    <3>3. LeaseStep(r) /\ ~Owns(r)'
      BY <2>9, <3>1, <3>2 DEF LeaseStep, AnswerInv, LeaseTypes, Owns
    <3>4. Held(r)'
      BY <1>1, <2>3, <3>1, <3>2, <3>3 DEF Held, TokenOK, Resting
    <3> QED BY <2>4, <2>9, <3>3, <3>4, AnswersKept
  <2> QED BY <1>8, <2>7, <2>8, <2>9
<1> QED BY <1>4, <1>6, <1>7, <1>8, Zenon DEF FinalizeScriptTurn, Resp
\* A preparation goes on from a history in which nothing is open.
LEMMA PrepareHeld ==
    ASSUME ShapeInv, StartInv, AnswerInv, ~overtaken, ~overtaken', NEW r \in Runtimes, Prepare(r)
    PROVE  AnswerInv'
<1>1. /\ turn[r].stage = "preparing" /\ made < MaxResponses /\ made' = made + 1
      /\ UNCHANGED <<rec, calls, records>>
  BY DEF Prepare
<1>2. /\ TidyInv /\ TokenOK(r) /\ (Owns(r) => HeldOK(r))
      /\ turn \in [Runtimes -> Actors] /\ token \in [Runtimes -> BOOLEAN]
  BY Holding DEF ShapeInv, AnswerInv, LeaseTypes
<1>3. rec[r].next = "none"
  BY <1>1, <1>2 DEF TokenOK
<1>4. ClaimsItself(r) \/ Owns(r)
  <2>1. ~ClaimsItself(r) => turn[r].origin = "continue" \/ Owns(r)
    BY Zenon DEF ClaimsItself
  <2>2. turn[r].origin = "continue" => token[r]
    BY <1>1, <1>2 DEF TokenOK
  <2>3. ~ClaimsItself(r) => CanWrite(r)
    BY Zenon DEF Prepare
  <2> QED BY <2>1, <2>2, <2>3, Holding
<1>5. \A v \in Recorded : ~Missing(v)
  <2>1. CASE Owns(r)
    BY <1>1, <1>2, <1>3, <2>1 DEF HeldOK, Resting
  <2>2. CASE ClaimsItself(r)
    <3>1. ~Undelivered
      BY <2>2 DEF Prepare
    <3> QED BY <3>1 DEF Undelivered, Recorded, Missing
  <2> QED BY <1>4, <2>1, <2>2
<1>6. PICK b : b = RecoverInterruptedStream(history)
  OBVIOUS
<1>7. Tidy(b, calls, Recorded, made) /\ Full(b, calls, Recorded)
  <2>1. Tidy(history, calls, Recorded, made) /\ Sound(history) /\ calls \in [Responses -> 0..MaxCalls]
    BY <1>2 DEF TidyInv, ShapeInv
  <2>2. \A i \in DOMAIN history : history[i].kind = "response" /\ history[i].of \in Recorded => i # Len(history)
    BY <1>2, <1>5, NoneAtTip
  <2> QED BY <1>6, <2>1, <2>2, RecoveredTidy
<1>8. PICK sent : sent = IF turn[r].origin = "send" THEN 1 ELSE turn[r].take
  OBVIOUS
<1>9. sent \in Nat
  BY <1>2, <1>8 DEF Actors
<1>10. history' = WithMessages(b, sent, made + 1)
  BY <1>4, <1>6, <1>8, Zenon DEF Prepare, WithMessages
<1>11. made + 1 \in Responses
  BY <1>1, MadeResponses, ResponsesType
<1>12. Tidy(history', calls, Recorded, made + 1) /\ history' # <<>> /\ IsResponse(history', Len(history'), made + 1)
  BY <1>7, <1>9, <1>10, <1>11, PreparedTidy
<1>13. TidyInv'
  <2>1. Recorded' = Recorded
    BY <1>1 DEF Recorded
  <2> QED BY <1>1, <1>2, <1>12, <2>1 DEF TidyInv
<1>14. /\ turn'[r].stage = "streaming" /\ turn'[r].resp = made + 1 /\ turn'[r].live
       /\ \A q \in Runtimes : q # r => turn'[q] = turn[q]
  <2>1. turn' = [turn EXCEPT ![r] = [Idle EXCEPT !.stage = "streaming", !.resp = made + 1,
                                                 !.live = TRUE, !.active = TRUE]]
    BY DEF Prepare
  <2> QED BY <1>2, <2>1 DEF Idle
<1>15. TipIs(turn[r].resp)'
  BY <1>12, <1>14 DEF TipIs
<1>16. owner' = r /\ token' \in [Runtimes -> BOOLEAN] /\ token'[r] /\ \A q \in Runtimes : q # r => token'[q] = token[q]
  <2>1. CASE ClaimsItself(r)
    <3>1. Claim(r)
      BY <2>1, Zenon DEF Prepare
    <3>2. owner' = r /\ token' = [token EXCEPT ![r] = TRUE]
      BY <3>1, Zenon DEF Claim
    <3> QED BY <1>2, <3>2
  <2>2. CASE Owns(r) /\ ~ClaimsItself(r)
    <3>1. UNCHANGED lease
      BY <2>2, Zenon DEF Prepare
    <3> QED BY <1>2, <2>2, <3>1 DEF lease, Owns
  <2> QED BY <1>4, <2>1, <2>2
<1>17. LeaseStep(r)
  BY <1>1, <1>14, <1>16 DEF LeaseStep
<1>18. TokenOK(r)'
  BY <1>1, <1>3, <1>14, <1>16 DEF TokenOK, Resting
<1>19. HeldOK(r)'
  BY <1>1, <1>3, <1>14, <1>15 DEF HeldOK, Resting
<1>20. Held(r)'
  BY <1>13, <1>18, <1>19 DEF Held
<1> QED BY <1>16, <1>17, <1>20, AnswersKept

\* What a step may do to the lease, and to the note that it was lost.
LeaseMoves(r) ==
    /\ \/ UNCHANGED lease \/ Claim(r) \/ Release(r)
       \/ owner' = owner /\ token' = token
       \/ owner' = owner /\ token' = [token EXCEPT ![r] = FALSE]
    /\ overtaken' = overtaken \/ \E b : overtaken' = (overtaken \/ b)

\* ensure_lease may claim the session.
LEMMA EnsureMoves == ASSUME NEW r, NEW next, NEW waiting, EnsureLease(r, next, waiting) PROVE LeaseMoves(r)
<1>1. CASE UNCHANGED <<lease, rec, overtaken>>
  BY <1>1, Zenon DEF LeaseMoves
<1>2. CASE Claim(r) /\ overtaken' = (overtaken \/ waiting.stage # "idle")
  BY <1>2, Zenon DEF LeaseMoves
<1> QED BY <1>1, <1>2, Zenon DEF EnsureLease

\* A failed step gives the lease up.
LEMMA FailMoves ==
    ASSUME NEW r, \/ (FinishTurn(r) \/ FinishAndDrain(r)) /\ overtaken' = overtaken
                  \/ FailScriptTurn(r) \/ RecoverFail(r)
    PROVE  LeaseMoves(r)
<1>1. Release(r) /\ overtaken' = overtaken
  BY DEF FinishTurn, FinishAndDrain, FailScriptTurn, RecoverFail
<1> QED BY <1>1, Zenon DEF LeaseMoves

\* Every step of a process does no more to its lease.
LEMMA StepMoves == ASSUME NEW r, Step(r) PROVE LeaseMoves(r)
<1>1. CASE Send(r)
  BY <1>1, EnsureMoves, Zenon DEF Send
<1>2. CASE Prepare(r)
  <2>1. (Claim(r) \/ UNCHANGED lease) /\ overtaken' = (overtaken \/ (ClaimsItself(r) /\ Undelivered))
    BY <1>2, Zenon DEF Prepare
  <2> QED BY <2>1, Zenon DEF LeaseMoves
<1>3. CASE PrepareFail(r)
  <2>1. CASE (FinishTurn(r) \/ FinishAndDrain(r)) /\ overtaken' = overtaken
    BY <2>1, FailMoves
  <2>2. CASE \E next, waiting : EnsureLease(r, next, waiting)
    BY <2>2, EnsureMoves
  <2>3. CASE UNCHANGED <<lease, rec, queued, overtaken>>
    BY <2>3, Zenon DEF LeaseMoves
  <2> QED BY <1>3, <2>1, <2>2, <2>3, Zenon DEF PrepareFail
<1>4. CASE FinalizeScriptTurn(r)
  <2>1. CASE FailScriptTurn(r)
    BY <2>1, FailMoves
  <2>2. CASE FinishAndDrain(r) /\ overtaken' = overtaken
    BY <2>2, FailMoves
  <2>3. CASE \E next, waiting : EnsureLease(r, next, waiting)
    BY <2>3, EnsureMoves
  <2>4. CASE UNCHANGED <<lease, rec, queued, overtaken>>
    BY <2>4, Zenon DEF LeaseMoves
  <2> QED BY <1>4, <2>1, <2>2, <2>3, <2>4, Zenon DEF FinalizeScriptTurn
<1>5. CASE RecoverRecord(r) \/ RecoverResult(r) \/ RecoverSkipped(r)
  <2>1. CASE RecoverFail(r)
    BY <2>1, FailMoves
  <2>2. CASE UNCHANGED <<lease, overtaken>>
    BY <2>2, Zenon DEF LeaseMoves
  <2> QED BY <1>5, <2>1, <2>2 DEF RecoverRecord, RecoverResult, RecoverSkipped
<1>6. CASE \/ CreateRecord(r) \/ Refuse(r) \/ Prompt(r) \/ EndPending(r) \/ DeliverResult(r) \/ ScriptBroken(r)
  <2>1. CASE FailScriptTurn(r)
    BY <2>1, FailMoves
  <2>2. CASE UNCHANGED <<lease, overtaken>>
    BY <2>2, Zenon DEF LeaseMoves
  <2> QED BY <1>6, <2>1, <2>2 DEF CreateRecord, Refuse, Prompt, EndPending, FinishPrepared, DeliverResult, ScriptBroken
<1>7. CASE \/ SweepDone(r) \/ CompleteText(r) \/ StreamFail(r) \/ StreamLost(r) \/ CancelStream(r) \/ CancelAnswer(r)
           \/ CancelTurn(r) \/ DiscardQueue(r)
  <2>1. overtaken' = overtaken /\ (FinishTurn(r) \/ FinishAndDrain(r) \/ UNCHANGED lease)
    BY <1>7 DEF SweepDone, CompleteText, StreamFail, StreamLost, CancelStream, CancelAnswer, CancelTurn, DiscardQueue
  <2>2. CASE UNCHANGED lease
    BY <2>1, <2>2, Zenon DEF LeaseMoves
  <2> QED BY <2>1, <2>2, FailMoves
<1>8. CASE \/ CompleteCalls(r) \/ CancelCalls(r) \/ RecoverDone(r) \/ StartPrepared(r) \/ MarkRunning(r) \/ FinishScript(r)
           \/ Renew(r)
  <2>1. overtaken' = overtaken /\ owner' = owner /\ token' = token
    BY <1>8 DEF CompleteCalls, CancelCalls, RecoverDone, StartPrepared, MarkRunning, FinishScript, Renew, lease
  <2> QED BY <2>1, Zenon DEF LeaseMoves
<1>9. CASE Crash(r) \/ Shutdown(r) \/ Start(r)
  <2>1. /\ overtaken' = overtaken
        /\ \/ owner' = owner /\ token' = [token EXCEPT ![r] = FALSE]
           \/ Release(r) \/ Claim(r) \/ UNCHANGED lease
    <3>1. CASE Crash(r)
      BY <3>1 DEF Crash
    <3>2. CASE Shutdown(r)
      BY <3>2, Zenon DEF Shutdown
    <3>3. CASE Start(r)
      <4>1. (Claim(r) \/ UNCHANGED lease) /\ overtaken' = overtaken
        <5>1. CASE owner # NoOne /\ expired
          BY <3>3, <5>1, Zenon DEF Start
        <5>2. CASE ~(owner # NoOne /\ expired)
          <6>1. UNCHANGED <<lease, rec>> /\ overtaken' = overtaken
            BY <3>3, <5>2, Zenon DEF Start
          <6> QED BY <6>1
        <5> QED BY <5>1, <5>2
      <4> QED BY <4>1
    <3> QED BY <1>9, <3>1, <3>2, <3>3
  <2> QED BY <2>1, Zenon DEF LeaseMoves
<1> QED BY <1>1, <1>2, <1>3, <1>4, <1>5, <1>6, <1>7, <1>8, <1>9, Zenon DEF Step

\* The lease keeps its type, and a lost lease is not forgotten.
LEMMA LeaseKept ==
    ASSUME LeaseTypes, NEW r \in Runtimes, Step(r)
    PROVE  LeaseTypes' /\ (overtaken => overtaken')
<1>1. LeaseMoves(r)
  BY StepMoves
<1>2. overtaken => overtaken'
  BY <1>1, Zenon DEF LeaseMoves
<1>3. owner' \in {owner, NoOne, r} /\ token' \in [Runtimes -> BOOLEAN]
  <2>1. CASE UNCHANGED lease \/ (owner' = owner /\ token' = token)
    BY <2>1 DEF lease, LeaseTypes
  <2>2. CASE Claim(r)
    BY <2>2 DEF Claim, LeaseTypes
  <2>3. CASE Release(r)
    <3>1. owner' \in {owner, NoOne} /\ token' = [token EXCEPT ![r] = FALSE]
      BY <2>3 DEF Release
    <3> QED BY <3>1 DEF LeaseTypes
  <2>4. CASE owner' = owner /\ token' = [token EXCEPT ![r] = FALSE]
    BY <2>4 DEF LeaseTypes
  <2> QED BY <1>1, <2>1, <2>2, <2>3, <2>4, Zenon DEF LeaseMoves
<1> QED BY <1>2, <1>3 DEF LeaseTypes

\* No answer is there to begin with ...
LEMMA AnswersInit == Init => AnswerInv
<1> SUFFICES ASSUME Init PROVE AnswerInv
  OBVIOUS
<1>1. LeaseTypes
  BY DEF Init, LeaseTypes
<1>2. history = <<>> /\ Recorded = {} /\ made = 0
  BY DEF Init, Recorded, NoRecord
<1>3. Tidy(<<>>, calls, {}, 0)
  BY DEF Tidy, InPlace, Numbered, Closed, RollsBack
<1>4. TidyInv
  BY <1>2, <1>3 DEF TidyInv
<1>5. ASSUME NEW r \in Runtimes PROVE TokenOK(r) /\ ~Owns(r)
  <2>1. turn[r] = Idle /\ rec[r] = NoRecovery /\ token[r] = FALSE
    BY DEF Init
  <2> QED BY <2>1, RestingStages DEF TokenOK, Resting, NoRecovery, Owns
<1> QED BY <1>1, <1>4, <1>5 DEF AnswerInv

\* ... and every step keeps the answers in order.
LEMMA AnswersStep == IInv /\ AnswerInv /\ [Next]_vars => AnswerInv'
<1> SUFFICES ASSUME IInv, AnswerInv, [Next]_vars PROVE AnswerInv'
  OBVIOUS
<1>1. ShapeInv /\ StageInv /\ RecInv /\ StartInv
  BY DEF IInv
<1>2. CASE UNCHANGED vars
  <2>1. UNCHANGED <<owner, token, turn, rec, history, calls, records, made, overtaken>>
    BY <1>2 DEF vars, lease, durable
  <2>2. LeaseTypes'
    BY <2>1 DEF AnswerInv, LeaseTypes
  <2>3. ASSUME ~overtaken' PROVE TidyInv' /\ \A r \in Runtimes : TokenOK(r)' /\ (Owns(r)' => HeldOK(r)')
    <3>1. TidyInv /\ SameAnswers /\ \A r \in Runtimes : TokenOK(r) /\ (Owns(r) => HeldOK(r))
      BY <2>1, <2>3 DEF AnswerInv, SameAnswers
    <3>2. TidyInv'
      BY <3>1, SameTidy
    <3>3. ASSUME NEW r \in Runtimes PROVE TokenOK(r)' /\ (Owns(r)' => HeldOK(r)')
      <4>1. TokenOK(r)'
        BY <2>1, <3>1 DEF TokenOK
      <4>2. HeldOK(r) => HeldOK(r)'
        BY <2>1, <3>1, SameHeld
      <4>3. Owns(r)' <=> Owns(r)
        BY <2>1 DEF Owns
      <4> QED BY <3>1, <4>1, <4>2, <4>3
    <3> QED BY <3>2, <3>3
  <2> QED BY <2>2, <2>3 DEF AnswerInv
<1>3. CASE Expire
  BY <1>1, <1>3, ExpireHeld
<1>4. CASE \E r \in Runtimes : Step(r)
  <2>1. PICK r \in Runtimes : Step(r)
    BY <1>4
  <2>2. CASE overtaken'
    <3>1. LeaseTypes'
      BY <2>1, LeaseKept DEF AnswerInv
    <3> QED BY <2>2, <3>1 DEF AnswerInv
  <2>3. CASE ~overtaken'
    <3>1. ~overtaken
      BY <2>1, <2>3, LeaseKept DEF AnswerInv
    <3>2. CASE Send(r) \/ Prepare(r) \/ PrepareFail(r)
      BY <1>1, <2>3, <3>1, <3>2, SendHeld, PrepareHeld, PrepareFailHeld
    <3>3. CASE RecoverRecord(r) \/ RecoverResult(r) \/ RecoverSkipped(r) \/ RecoverDone(r) \/ SweepDone(r)
      BY <1>1, <3>1, <3>3, RecoverRecordHeld, RecoverResultHeld, RecoverSkippedHeld, RecoverDoneHeld, SweepDoneHeld
    <3>4. CASE CompleteText(r) \/ StreamFail(r) \/ CancelStream(r) \/ CompleteCalls(r) \/ CancelCalls(r) \/ CancelAnswer(r)
      BY <1>1, <3>1, <3>4, StreamHeldOK, CallsHeld, CancelAnswerHeld
    <3>5. CASE StreamLost(r) \/ ScriptBroken(r) \/ StartPrepared(r) \/ CancelTurn(r) \/ DiscardQueue(r) \/ Renew(r)
      BY <1>1, <3>1, <3>5, LostHeld, CancelHeld
    <3>6. CASE CreateRecord(r) \/ Refuse(r) \/ Prompt(r) \/ EndPending(r) \/ MarkRunning(r) \/ FinishScript(r)
      BY <1>1, <3>1, <3>6, CreateRecordHeld, PreparedHeld, ScriptHeld
    <3>7. CASE DeliverResult(r) \/ FinalizeScriptTurn(r)
      BY <1>1, <2>3, <3>1, <3>7, DeliverResultHeld, FinalizeHeld
    <3>8. CASE Crash(r) \/ Shutdown(r) \/ Start(r)
      BY <1>1, <3>1, <3>8, ProcessHeld
    <3> QED BY <2>1, <3>2, <3>3, <3>4, <3>5, <3>6, <3>7, <3>8, Zenon DEF Step
  <2> QED BY <2>2, <2>3
<1> QED BY <1>2, <1>3, <1>4 DEF Next

-----------------------------------------------------------------------------
(* What follows for the calls. *)

\* No call is answered twice.
LEMMA OneAnswerHolds == ASSUME AnswerInv PROVE OneAnswer
<1>1. SUFFICES ASSUME ~overtaken, NEW i \in DOMAIN history, NEW j \in DOMAIN history,
                      history[i].kind = "result", history[j].kind = "result",
                      history[i].of = history[j].of, history[i].call = history[j].call
               PROVE  i = j
  BY DEF OneAnswer
<1>2. history \in Seq(Items) /\ InPlace(history, calls) /\ Numbered(history, made)
  BY <1>1 DEF AnswerInv, TidyInv, Tidy
<1>3. PICK a \in DOMAIN history : InBlock(history, calls, a, i)
  BY <1>1, <1>2 DEF InPlace
<1>4. PICK b \in DOMAIN history : InBlock(history, calls, b, j)
  BY <1>1, <1>2 DEF InPlace
<1>5. a = b
  BY <1>1, <1>2, <1>3, <1>4, ResponseUnique DEF InBlock
<1>6. i - a = j - a
  <2>1. history[i].call = i - a /\ history[j].call = j - b
    BY <1>3, <1>4 DEF InBlock
  <2> QED BY <1>1, <1>5, <2>1
<1>7. i \in Nat /\ j \in Nat /\ a \in Nat
  BY <1>2
<1> QED BY <1>6, <1>7

\* The calls of a response with a record are answered before the next message.
LEMMA RecordedHolds == ASSUME ShapeInv, AnswerInv PROVE RecordedCallsAnswered
<1>1. SUFFICES ASSUME ~overtaken, NEW i \in DOMAIN history, history[i].kind = "response",
                      records[history[i].of].phase # "none", NEW n \in 1..calls[history[i].of],
                      i + n \in DOMAIN history
               PROVE  history[i + n].kind = "result" /\ history[i + n].of = history[i].of
  BY DEF RecordedCallsAnswered, AnsweredInPlace
<1>2. Tidy(history, calls, Recorded, made)
  BY <1>1 DEF AnswerInv, TidyInv
<1>3. history \in Seq(Items) /\ DOMAIN history = 1..Len(history) /\ Len(history) \in Nat /\ i \in Nat
  BY <1>2 DEF Tidy
<1>4. history[i].of \in Recorded
  BY <1>1 DEF ShapeInv, Sound, Recorded
<1>5. Answered(history, calls, i) \/ AtTip(history, i)
  BY <1>1, <1>2, <1>4 DEF Tidy, Closed, Begun
<1>6. calls[history[i].of] \in Nat /\ n \in Nat
  <2>1. calls[history[i].of] \in 0..MaxCalls
    BY <1>4 DEF Recorded, ShapeInv
  <2> QED BY <2>1, ResponsesType
<1>7. CASE Answered(history, calls, i)
  <2>1. history[i + n].kind = "result"
    BY <1>7 DEF Answered
  <2>2. PICK a \in DOMAIN history : InBlock(history, calls, a, i + n)
    BY <1>1, <1>2, <2>1 DEF Tidy, InPlace
  <2>3. /\ a < i + n /\ history[a].kind = "response" /\ history[i + n].of = history[a].of
        /\ \A k \in a + 1..i + n : history[k].kind = "result"
    BY <2>2 DEF InBlock
  <2>4. ~(a < i)
    <3>1. a < i => i \in a + 1..i + n
      BY <1>3, <1>6
    <3> QED BY <1>1, <2>3, <3>1
  <2>5. ~(a > i)
    <3>1. SUFFICES ASSUME a > i PROVE FALSE
      OBVIOUS
    <3>2. a \in Nat /\ a < i + n /\ n \in 1..calls[history[i].of]
      BY <1>1, <1>3, <2>3
    <3>3. a - i \in 1..calls[history[i].of] /\ i + (a - i) = a
      BY <1>3, <1>6, <3>1, <3>2
    <3>4. history[a].kind = "result"
      BY <1>7, <3>3 DEF Answered
    <3> QED BY <2>3, <3>4
  <2>6. a = i
    BY <1>3, <2>4, <2>5
  <2> QED BY <2>1, <2>3, <2>6
<1>8. CASE AtTip(history, i)
  <2>1. i + n = i + 1 /\ history[i + 1].kind = "result" /\ i + 1 \in DOMAIN history
    BY <1>1, <1>3, <1>6, <1>8 DEF AtTip
  <2>2. InBlock(history, calls, i, i + 1)
    BY <1>1, <1>2, <2>1, FirstOf
  <2> QED BY <2>1, <2>2 DEF InBlock
<1> QED BY <1>5, <1>7, <1>8

\* Behind a streaming response come only its own results.
LEMMA StreamingHolds == ASSUME AnswerInv PROVE StreamingAtTip
<1>1. SUFFICES ASSUME ~overtaken, NEW i \in DOMAIN history, history[i].how = "Streaming",
                      NEW j \in i + 1..Len(history)
               PROVE  history[j].of = history[i].of
  BY DEF StreamingAtTip
<1>2. history \in Seq(Items) /\ InPlace(history, calls) /\ RollsBack(history)
  BY <1>1 DEF AnswerInv, TidyInv, Tidy
<1>3. DOMAIN history = 1..Len(history) /\ Len(history) \in Nat /\ i \in Nat /\ j \in DOMAIN history /\ j > i
  BY <1>2
<1>4. history[i].kind = "response" /\ \A k \in DOMAIN history : k > i => history[k].kind = "result"
  BY <1>1, <1>2 DEF RollsBack
<1>5. PICK a \in DOMAIN history : InBlock(history, calls, a, j)
  BY <1>2, <1>3, <1>4 DEF InPlace
<1>6. history[a].kind = "response" /\ history[j].of = history[a].of /\ \A k \in a + 1..j : history[k].kind = "result"
  BY <1>5 DEF InBlock
<1>7. ~(a > i)
  BY <1>4, <1>6
<1>8. ~(a < i)
  <2>1. a < i => i \in a + 1..j
    BY <1>3
  <2> QED BY <1>4, <1>6, <2>1
<1>9. a = i
  BY <1>3, <1>7, <1>8
<1> QED BY <1>6, <1>9

\* What delivers, recovers or skips agrees: a result says what the record says, no call is answered
\* twice, the calls of a recorded response are answered in their place, and recovery can always roll
\* a streaming response back, through crashes, takeovers and recoveries (finalize_script_turn,
\* answer_skipped_calls, recover_session_executions, recover_interrupted_stream).
THEOREM ScriptsAnsweredCorrect == Spec => []ScriptsAnswered
<1>1. IInv /\ AnswerInv => OneAnswer /\ RecordedCallsAnswered /\ StreamingAtTip
  BY OneAnswerHolds, RecordedHolds, StreamingHolds DEF IInv
<1>2. Spec => []AnswerInv
  <2>1. Init => AnswerInv
    BY AnswersInit
  <2>2. IInv /\ AnswerInv /\ [Next]_vars => AnswerInv'
    BY AnswersStep
  <2> QED BY <2>1, <2>2, Invariance, PTL DEF Spec
<1> QED BY <1>1, <1>2, Invariance, DeliveredAgreesCorrect, PTL DEF ScriptsAnswered
=============================================================================
