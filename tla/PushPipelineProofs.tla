------------------------- MODULE PushPipelineProofs -------------------------
(***************************************************************************)
(* Proofs about PushPipeline, for any requests, bodies, tenants, number of *)
(* attempts and mode of the node, and an insert service that keeps         *)
(* InsertContract.                                                         *)
(*                                                                         *)
(* What an answer says was decided many steps before it: IInv follows a    *)
(* row from the parser (ParserProgress) over the attempts of its push      *)
(* (AttemptsInOrder) to the answer (AnswersCover), and a series from the   *)
(* cache to whoever has taken it upon itself to announce it                *)
(* (SeriesAreHeld).                                                        *)
(***************************************************************************)
EXTENDS PushPipeline, SequenceTheorems, TLAPS

(* How far the parser is, and what it has handed to doParse. *)
ParserProgress ==
  \A r \in Requests :
    /\ phase[r] # "parsing" => claimed[r] = {}
    /\ phase[r] \in {"waiting", "ok"} => LastChunk(r) /\ todo[r] = {}
    /\ phase[r] = "idle" => DOMAIN pushes[r] = {} /\ chunk[r] = 1
    /\ phase[r] = "parsing" => DOMAIN pushes[r] = 1..(2 * (chunk[r] - 1))
    /\ \A i \in DOMAIN pushes[r] : pushes[r][i].rows \subseteq SeriesOf(r)
    /\ \A k \in DOMAIN Body[r] :
          k < chunk[r] \/ phase[r] \in {"waiting", "ok"} =>
             \E i \in DOMAIN pushes[r] :
                pushes[r][i].table = "samples" /\ pushes[r][i].rows = Body[r][k]

(* The calls of a push are made one after the other, each after the one    *)
(* before has failed; a row is in the table only if its call was answered. *)
AttemptsInOrder ==
  /\ \A r \in Requests, i \in 1..MaxPushes, n \in 1..RetryAttempts :
        promise[<<r, i, n>>] # "none" =>
           i \in DOMAIN pushes[r] /\ n <= pushes[r][i].tries
  /\ \A r \in Requests : \A i \in DOMAIN pushes[r] :
        /\ pushes[r][i].tries > 0 => i \in 1..MaxPushes
        /\ \A n \in 1..RetryAttempts :
              /\ n <= pushes[r][i].tries => promise[<<r, i, n>>] # "none"
              /\ n < pushes[r][i].tries => promise[<<r, i, n>>] = "err"
              /\ n <= pushes[r][i].tries /\ promise[<<r, i, n>>] = "ok"
                   /\ pushes[r][i].rows # {} => <<r, i, n>> \in stored
  /\ \A c \in stored : promise[c] \in {"ok", "err"}

AnswersCover ==
  \A r \in Requests :
    /\ phase[r] = "ok" => AllOk(r)
    /\ phase[r] = "err" =>
         \/ r \in Malformed /\ 2 * Len(Body[r]) \notin DOMAIN pushes[r]
         \/ \E i \in DOMAIN pushes[r] : PushFailed(r, i)

(* The parser of r has come to series fp. *)
Parsed(r, fp) ==
  \/ \E k \in DOMAIN Body[r] : k < chunk[r] /\ fp \in Body[r][k]
  \/ fp \in Body[r][chunk[r]] /\ fp \notin todo[r]

(* Request s has marked the series, and has it to announce, announces it,  *)
(* or has failed.                                                          *)
Holds(s, fp) ==
  /\ fp \in marked[s]
  /\ \/ fp \in claimed[s]
     \/ \E i \in DOMAIN pushes[s] :
          pushes[s][i].table = "time_series" /\ fp \in pushes[s][i].rows
     \/ phase[s] = "err"

SeriesAreHeld ==
  /\ \A r \in Requests, fp \in FP : Parsed(r, fp) =>
        /\ \E s \in Requests : Holds(s, fp)
        /\ isDistributed => Holds(r, fp)
  /\ \A fp \in cache : \E s \in Requests : Holds(s, fp)

IInv ==
  /\ TypeOK
  /\ ParserProgress
  /\ AttemptsInOrder
  /\ AnswersCover
  /\ SeriesAreHeld
-----------------------------------------------------------------------------
(* Facts about bodies and about the list of pushes of a request. *)

LEMMA BodyFacts ==
  ASSUME NEW r \in Requests
  PROVE  /\ Len(Body[r]) \in Nat \ {0} /\ DOMAIN Body[r] = 1..Len(Body[r])
         /\ \A k \in DOMAIN Body[r] : /\ Body[r][k] \subseteq FP
                                      /\ Body[r][k] \subseteq SeriesOf(r)
<1>1. Body[r] \in Seq(SUBSET FP) /\ Len(Body[r]) > 0
  BY PipelineAssumption
<1>2. Len(Body[r]) \in Nat \ {0} /\ DOMAIN Body[r] = 1..Len(Body[r])
  BY <1>1
<1>3. \A k \in DOMAIN Body[r] : Body[r][k] \subseteq FP
  BY <1>1
<1>4. \A k \in DOMAIN Body[r] : Body[r][k] \subseteq SeriesOf(r)
  BY DEF SeriesOf, Range
<1> QED BY <1>2, <1>3, <1>4

LEMMA PushDomain ==
  ASSUME TypeOK, NEW r \in Requests
  PROVE  /\ Len(pushes[r]) \in Nat /\ DOMAIN pushes[r] = 1..Len(pushes[r])
         /\ \A i \in DOMAIN pushes[r] :
               /\ pushes[r][i] \in Push
               /\ pushes[r][i].tries \in 0..RetryAttempts
<1>1. pushes[r] \in Seq(Push)
  BY DEF TypeOK
<1>2. Len(pushes[r]) \in Nat /\ DOMAIN pushes[r] = 1..Len(pushes[r])
  BY <1>1
<1>3. \A i \in DOMAIN pushes[r] : pushes[r][i] \in Push
  BY <1>1, <1>2
<1> QED BY <1>2, <1>3 DEF Push

LEMMA RangeEnd ==
  ASSUME NEW m \in Nat, NEW n \in Nat, 1..m = 1..n
  PROVE  m = n
<1>1. m \in 1..m \/ m = 0
  OBVIOUS
<1>2. n \in 1..n \/ n = 0
  OBVIOUS
<1> QED BY <1>1, <1>2

(* Flush appends the two pushes of the chunk. *)
LEMMA FlushAppends ==
  ASSUME TypeOK, NEW r \in Requests, Flush(r)
  PROVE  LET n == Len(pushes[r])
             ts == [table |-> "time_series", rows |-> claimed[r], tries |-> 0]
             spl == [table |-> "samples", rows |-> Body[r][chunk[r]], tries |-> 0]
         IN  /\ pushes' \in [Requests -> Seq(Push)]
             /\ \A q \in Requests : q # r => pushes'[q] = pushes[q]
             /\ n \in Nat /\ DOMAIN pushes[r] = 1..n /\ DOMAIN pushes'[r] = 1..(n + 2)
             /\ \A i \in 1..n : pushes'[r][i] = pushes[r][i]
             /\ pushes'[r][n + 1] = ts /\ pushes'[r][n + 2] = spl
<1> DEFINE n == Len(pushes[r])
           ts == [table |-> "time_series", rows |-> claimed[r], tries |-> 0]
           spl == [table |-> "samples", rows |-> Body[r][chunk[r]], tries |-> 0]
<1>1. pushes \in [Requests -> Seq(Push)] /\ pushes[r] \in Seq(Push)
  BY DEF TypeOK
<1>2. Body[r][chunk[r]] \subseteq FP /\ claimed[r] \subseteq FP
  BY BodyFacts DEF TypeOK
<1>3. 0 \in 0..RetryAttempts
  BY PipelineAssumption
<1>4. ts \in Push /\ spl \in Push
  BY <1>2, <1>3 DEF Push
<1>5. pushes' = [pushes EXCEPT ![r] = @ \o <<ts, spl>>]
  BY DEF Flush, TimeSeriesRows
<1> HIDE DEF ts, spl
<1>6. <<ts, spl>> \in Seq(Push) /\ Len(<<ts, spl>>) = 2
      /\ <<ts, spl>>[1] = ts /\ <<ts, spl>>[2] = spl
  BY <1>4
<1>7. pushes'[r] = pushes[r] \o <<ts, spl>>
  BY <1>1, <1>5
<1>8. /\ pushes'[r] \in Seq(Push) /\ Len(pushes'[r]) = n + 2
      /\ \A i \in 1..(n + 2) :
            pushes'[r][i] = IF i <= n THEN pushes[r][i] ELSE <<ts, spl>>[i - n]
  BY <1>1, <1>6, <1>7, ConcatProperties
<1>9. n \in Nat /\ DOMAIN pushes[r] = 1..n
  BY <1>1
<1>10. DOMAIN pushes'[r] = 1..(n + 2)
  BY <1>8
<1>11. pushes'[r][n + 1] = ts
  <2>1. n + 1 \in 1..(n + 2) /\ ~(n + 1 <= n) /\ (n + 1) - n = 1
    BY <1>9
  <2> QED BY <1>6, <1>8, <2>1
<1>12. pushes'[r][n + 2] = spl
  <2>1. n + 2 \in 1..(n + 2) /\ ~(n + 2 <= n) /\ (n + 2) - n = 2
    BY <1>9
  <2> QED BY <1>6, <1>8, <2>1
<1>13. ASSUME NEW i \in 1..n PROVE pushes'[r][i] = pushes[r][i]
  <2>1. i \in 1..(n + 2) /\ i <= n
    BY <1>9
  <2> QED BY <1>8, <2>1
<1>14. /\ pushes' \in [Requests -> Seq(Push)]
       /\ \A q \in Requests : q # r => pushes'[q] = pushes[q]
  BY <1>1, <1>5, <1>7, <1>8
<1> QED BY <1>9, <1>10, <1>11, <1>12, <1>13, <1>14 DEF ts, spl

(* DoPush counts the attempt and changes nothing else of any push. *)
LEMMA DoPushCounts ==
  ASSUME TypeOK, NEW r \in Requests, NEW i \in 1..MaxPushes, DoPush(r, i)
  PROVE  /\ i \in DOMAIN pushes[r] /\ pushes[r][i].tries < RetryAttempts
         /\ pushes' \in [Requests -> Seq(Push)]
         /\ \A q \in Requests :
               /\ DOMAIN pushes'[q] = DOMAIN pushes[q]
               /\ \A j \in DOMAIN pushes[q] :
                     /\ pushes'[q][j].rows = pushes[q][j].rows
                     /\ pushes'[q][j].table = pushes[q][j].table
                     /\ pushes'[q][j].tries =
                           IF q = r /\ j = i THEN pushes[q][j].tries + 1
                                             ELSE pushes[q][j].tries
<1>1. /\ i \in DOMAIN pushes[r] /\ pushes[r][i].tries < RetryAttempts
      /\ pushes' = [pushes EXCEPT ![r][i].tries = @ + 1]
  BY DEF DoPush, MayTry
<1>2. pushes \in [Requests -> Seq(Push)] /\ pushes[r] \in Seq(Push)
  BY DEF TypeOK
<1>3. pushes[r][i] \in Push /\ DOMAIN pushes[r] = 1..Len(pushes[r])
  BY <1>1, PushDomain
<1> DEFINE e == [pushes[r][i] EXCEPT !.tries = pushes[r][i].tries + 1]
<1>4. pushes[r][i].tries + 1 \in 0..RetryAttempts
  BY <1>1, <1>3, PipelineAssumption DEF Push
<1>5. /\ e \in Push /\ e.rows = pushes[r][i].rows /\ e.table = pushes[r][i].table
      /\ e.tries = pushes[r][i].tries + 1
  BY <1>3, <1>4 DEF Push
<1>6. pushes' = [pushes EXCEPT ![r] = [pushes[r] EXCEPT ![i] = e]]
  BY <1>1, <1>2, <1>3
<1> HIDE DEF e
<1>7. /\ [pushes[r] EXCEPT ![i] = e] \in Seq(Push)
      /\ Len([pushes[r] EXCEPT ![i] = e]) = Len(pushes[r])
      /\ \A j \in 1..Len(pushes[r]) :
            [pushes[r] EXCEPT ![i] = e][j] = IF j = i THEN e ELSE pushes[r][j]
  BY <1>1, <1>2, <1>3, <1>5, ExceptSeq
<1>8. /\ pushes' \in [Requests -> Seq(Push)]
      /\ pushes'[r] = [pushes[r] EXCEPT ![i] = e]
      /\ \A q \in Requests : q # r => pushes'[q] = pushes[q]
  BY <1>2, <1>6, <1>7
<1>9. ASSUME NEW q \in Requests
      PROVE  /\ DOMAIN pushes'[q] = DOMAIN pushes[q]
             /\ \A j \in DOMAIN pushes[q] :
                     /\ pushes'[q][j].rows = pushes[q][j].rows
                     /\ pushes'[q][j].table = pushes[q][j].table
                     /\ pushes'[q][j].tries =
                           IF q = r /\ j = i THEN pushes[q][j].tries + 1
                                             ELSE pushes[q][j].tries
  <2>1. CASE q # r
    BY <1>8, <2>1
  <2>2. CASE q = r
    BY <1>3, <1>5, <1>7, <1>8, <2>2
  <2> QED BY <2>1, <2>2
<1> QED BY <1>1, <1>8, <1>9
-----------------------------------------------------------------------------
LEMMA InitIInv == Init => IInv
<1> SUFFICES ASSUME Init PROVE IInv
  OBVIOUS
<1>1. \A r \in Requests : Len(Body[r]) \in Nat \ {0} /\ DOMAIN Body[r] = 1..Len(Body[r])
  BY BodyFacts
<1>2. /\ pushes = [r \in Requests |-> <<>>] /\ stored = {} /\ cache = {}
      /\ promise = [c \in Calls |-> "none"] /\ claimed = [r \in Requests |-> {}]
      /\ chunk = [r \in Requests |-> 1] /\ todo = [r \in Requests |-> Body[r][1]]
      /\ phase = [r \in Requests |-> "idle"]
      /\ lost = {} /\ marked = [r \in Requests |-> {}]
  BY DEF Init, Service!ContractInit
<1>3. TypeOK
  <2>1. isDistributed \in BOOLEAN
    BY PipelineAssumption DEF Init
  <2>2. \A r \in Requests : 1 \in DOMAIN Body[r] /\ Body[r][1] \subseteq FP
    BY BodyFacts
  <2> QED BY <1>1, <1>2, <2>1, <2>2 DEF TypeOK, Service!Outcomes
<1>4. ParserProgress
  BY <1>1, <1>2 DEF ParserProgress
<1>5. AttemptsInOrder
  BY <1>2 DEF AttemptsInOrder, Calls
<1>6. AnswersCover
  BY <1>2 DEF AnswersCover
<1>7. SeriesAreHeld
  BY <1>1, <1>2 DEF SeriesAreHeld, Parsed
<1> QED BY <1>3, <1>4, <1>5, <1>6, <1>7 DEF IInv
-----------------------------------------------------------------------------
(* The parser. *)

(* A step that touches no push, promise or row, and no phase that counts,  *)
(* keeps the attempts and the answers.                                     *)
LEMMA CallsFrame ==
  ASSUME IInv, UNCHANGED <<pushes, promise, stored>>
  PROVE  /\ AttemptsInOrder'
         /\ \A r \in Requests : AllOk(r)' <=> AllOk(r)
         /\ \A r \in Requests : \A i \in DOMAIN pushes[r] :
               PushFailed(r, i)' <=> PushFailed(r, i)
  BY DEF IInv, AttemptsInOrder, AllOk, PushOk, PushFailed, Outcome, LastCall

LEMMA StartIInv == ASSUME IInv, NEW r \in Requests, Start(r) PROVE IInv'
<1>1. /\ phase[r] = "idle" /\ phase' = [phase EXCEPT ![r] = "parsing"]
      /\ UNCHANGED <<isDistributed, cache, chunk, todo, claimed, pushes, promise, stored,
                     lost, marked>>
  BY DEF Start, parserVars, serviceVars
<1>2. phase \in [Requests -> {"idle", "parsing", "waiting", "ok", "err"}]
  BY DEF IInv, TypeOK
<1>3. TypeOK'
  BY <1>1 DEF IInv, TypeOK
<1>4. ParserProgress'
  <2>1. 1..(2 * (1 - 1)) = {}
    OBVIOUS
  <2> QED BY <1>1, <1>2, <2>1 DEF IInv, ParserProgress, LastChunk
<1>5. AttemptsInOrder' /\ AnswersCover'
  BY <1>1, <1>2, CallsFrame DEF IInv, AnswersCover
<1>6. SeriesAreHeld'
  BY <1>1, <1>2 DEF IInv, SeriesAreHeld, Parsed, Holds
<1> QED BY <1>3, <1>4, <1>5, <1>6 DEF IInv

LEMMA OnEntriesIInv ==
  ASSUME IInv, NEW r \in Requests, NEW fp \in FP, OnEntries(r, fp)
  PROVE  IInv'
<1>1. /\ phase[r] = "parsing" /\ fp \in todo[r]
      /\ todo' = [todo EXCEPT ![r] = @ \ {fp}]
      /\ claimed' = [claimed EXCEPT ![r] = IF MaybeAddFp(fp) THEN @ \cup {fp} ELSE @]
      /\ cache' = CacheWith(fp)
      /\ marked' = [marked EXCEPT ![r] = IF MaybeAddFp(fp) THEN @ \cup {fp} ELSE @]
      /\ UNCHANGED <<isDistributed, phase, chunk, pushes, promise, stored, lost>>
  BY DEF OnEntries, serviceVars
<1>2. Body[r][chunk[r]] \subseteq FP
  BY BodyFacts DEF IInv, TypeOK
<1>3. /\ \A q \in Requests : q # r => todo'[q] = todo[q] /\ claimed'[q] = claimed[q]
      /\ todo'[r] = todo[r] \ {fp}
      /\ claimed'[r] = IF MaybeAddFp(fp) THEN claimed[r] \cup {fp} ELSE claimed[r]
      /\ marked' \in [Requests -> SUBSET FP]
      /\ \A q \in Requests : marked[q] \subseteq marked'[q]
      /\ MaybeAddFp(fp) => fp \in marked'[r]
  BY <1>1 DEF IInv, TypeOK
<1>4. cache' \in SUBSET FP /\ cache \subseteq cache' /\ cache' \subseteq cache \cup {fp}
  BY <1>1 DEF IInv, TypeOK, CacheWith
<1>5. TypeOK'
  BY <1>1, <1>3, <1>4 DEF IInv, TypeOK
<1>6. ParserProgress'
  BY <1>1, <1>3 DEF IInv, ParserProgress, LastChunk
<1>7. AttemptsInOrder' /\ AnswersCover'
  BY <1>1, CallsFrame DEF IInv, AnswersCover
<1>8. SeriesAreHeld'
  <2>1. \A s \in Requests, g \in FP : Holds(s, g) => Holds(s, g)'
    BY <1>1, <1>3 DEF Holds
  <2>2. (\E s \in Requests : Holds(s, fp)') /\ (isDistributed => Holds(r, fp)')
    <3>1. CASE MaybeAddFp(fp)
      BY <1>3, <3>1 DEF Holds
    <3>2. CASE ~MaybeAddFp(fp)
      <4>1. fp \in cache /\ ~isDistributed
        BY <3>2 DEF MaybeAddFp, CacheOff
      <4> QED BY <2>1, <4>1 DEF IInv, SeriesAreHeld
    <3> QED BY <3>1, <3>2
  <2>3. \A q \in Requests, g \in FP : Parsed(q, g)' => Parsed(q, g) \/ (g = fp /\ q = r)
    BY <1>1, <1>3 DEF Parsed
  <2>4. ASSUME NEW q \in Requests, NEW g \in FP, Parsed(q, g)'
        PROVE  (\E s \in Requests : Holds(s, g)') /\ (isDistributed' => Holds(q, g)')
    BY <1>1, <2>1, <2>2, <2>3, <2>4 DEF IInv, SeriesAreHeld
  <2>5. ASSUME NEW g \in cache' PROVE \E s \in Requests : Holds(s, g)'
    <3>1. CASE g = fp
      BY <2>2, <3>1 DEF Holds
    <3>2. CASE g # fp
      <4>1. g \in cache /\ g \in FP
        BY <1>4, <3>2 DEF IInv, TypeOK
      <4>2. PICK s \in Requests : Holds(s, g)
        BY <4>1 DEF IInv, SeriesAreHeld
      <4> QED BY <2>1, <4>1, <4>2
    <3> QED BY <3>1, <3>2
  <2> QED BY <2>4, <2>5 DEF SeriesAreHeld
<1> QED BY <1>5, <1>6, <1>7, <1>8 DEF IInv

LEMMA FlushIInv == ASSUME IInv, NEW r \in Requests, Flush(r) PROVE IInv'
<1> DEFINE n == Len(pushes[r])
<1>1. /\ phase[r] = "parsing" /\ todo[r] = {} /\ claimed' = [claimed EXCEPT ![r] = {}]
      /\ UNCHANGED <<isDistributed, cache, promise, stored, lost, marked>>
  BY DEF Flush, ResetTimeSeries, serviceVars
<1>2. /\ pushes' \in [Requests -> Seq(Push)]
      /\ \A q \in Requests : q # r => pushes'[q] = pushes[q]
      /\ n \in Nat /\ DOMAIN pushes[r] = 1..n /\ DOMAIN pushes'[r] = 1..(n + 2)
      /\ \A i \in 1..n : pushes'[r][i] = pushes[r][i]
      /\ pushes'[r][n + 1] = [table |-> "time_series", rows |-> claimed[r], tries |-> 0]
      /\ pushes'[r][n + 2] = [table |-> "samples", rows |-> Body[r][chunk[r]], tries |-> 0]
  BY FlushAppends DEF IInv
<1>3. /\ chunk[r] \in 1..Len(Body[r]) /\ Len(Body[r]) \in Nat
      /\ DOMAIN Body[r] = 1..Len(Body[r])
      /\ claimed[r] \subseteq Body[r][chunk[r]]
      /\ Body[r][chunk[r]] \subseteq SeriesOf(r)
      /\ phase \in [Requests -> {"idle", "parsing", "waiting", "ok", "err"}]
  BY BodyFacts DEF IInv, TypeOK
<1>4. /\ \A q \in Requests : q # r => /\ chunk'[q] = chunk[q] /\ todo'[q] = todo[q]
                                      /\ phase'[q] = phase[q] /\ claimed'[q] = claimed[q]
      /\ claimed'[r] = {}
      /\ \/ LastChunk(r) /\ phase'[r] = "waiting" /\ chunk'[r] = chunk[r] /\ todo'[r] = {}
         \/ /\ ~LastChunk(r) /\ phase'[r] = "parsing" /\ chunk'[r] = chunk[r] + 1
            /\ todo'[r] = Body[r][chunk[r] + 1]
      /\ phase' \in [Requests -> {"idle", "parsing", "waiting", "ok", "err"}]
  <2>1. /\ chunk \in [Requests -> Nat] /\ todo \in [Requests -> SUBSET FP]
        /\ claimed \in [Requests -> SUBSET FP]
    BY DEF IInv, TypeOK
  <2>2. CASE LastChunk(r)
    <3>1. phase' = [phase EXCEPT ![r] = "waiting"] /\ chunk' = chunk /\ todo' = todo
      BY <2>2 DEF Flush
    <3> QED BY <1>1, <1>3, <2>1, <2>2, <3>1
  <2>3. CASE ~LastChunk(r)
    <3>1. /\ phase' = phase /\ chunk' = [chunk EXCEPT ![r] = @ + 1]
          /\ todo' = [todo EXCEPT ![r] = Body[r][chunk[r] + 1]]
      BY <2>3 DEF Flush
    <3> QED BY <1>1, <1>3, <2>1, <2>3, <3>1
  <2> QED BY <2>2, <2>3
<1> HIDE DEF n
<1>5. TypeOK'
  <2>1. /\ chunk' \in [Requests -> Nat]
        /\ todo' \in [Requests -> SUBSET FP] /\ claimed' \in [Requests -> SUBSET FP]
    <3>1. chunk[r] + 1 \in DOMAIN Body[r] => Body[r][chunk[r] + 1] \subseteq FP
      BY BodyFacts
    <3>2. /\ chunk \in [Requests -> Nat] /\ todo \in [Requests -> SUBSET FP]
          /\ claimed \in [Requests -> SUBSET FP]
      BY DEF IInv, TypeOK
    <3>3. claimed' \in [Requests -> SUBSET FP]
      BY <1>1, <3>2
    <3>4. CASE LastChunk(r)
      BY <3>2, <3>3, <3>4 DEF Flush
    <3>5. CASE ~LastChunk(r)
      <4>1. chunk[r] + 1 \in DOMAIN Body[r]
        BY <1>3, <3>5 DEF LastChunk
      <4>2. /\ chunk' = [chunk EXCEPT ![r] = @ + 1]
            /\ todo' = [todo EXCEPT ![r] = Body[r][chunk[r] + 1]]
        BY <3>5 DEF Flush
      <4> QED BY <3>1, <3>2, <3>3, <4>1, <4>2
    <3> QED BY <3>4, <3>5
  <2>2. ASSUME NEW q \in Requests
        PROVE  /\ chunk'[q] \in 1..Len(Body[q])
               /\ todo'[q] \subseteq Body[q][chunk'[q]]
               /\ claimed'[q] \subseteq Body[q][chunk'[q]] \ todo'[q]
    <3>1. CASE q # r
      BY <1>4, <3>1 DEF IInv, TypeOK
    <3>2. CASE q = r
      BY <1>3, <1>4, <3>2 DEF LastChunk
    <3> QED BY <3>1, <3>2
  <2> QED BY <1>1, <1>2, <1>4, <2>1, <2>2 DEF IInv, TypeOK
<1>6. ParserProgress'
  <2>1. ASSUME NEW q \in Requests, q # r
        PROVE  /\ phase'[q] # "parsing" => claimed'[q] = {}
               /\ phase'[q] \in {"waiting", "ok"} => LastChunk(q)' /\ todo'[q] = {}
               /\ phase'[q] = "idle" => DOMAIN pushes'[q] = {} /\ chunk'[q] = 1
               /\ phase'[q] = "parsing" => DOMAIN pushes'[q] = 1..(2 * (chunk'[q] - 1))
               /\ \A i \in DOMAIN pushes'[q] : pushes'[q][i].rows \subseteq SeriesOf(q)
               /\ \A k \in DOMAIN Body[q] :
                     k < chunk'[q] \/ phase'[q] \in {"waiting", "ok"} =>
                       \E i \in DOMAIN pushes'[q] :
                          /\ pushes'[q][i].table = "samples"
                          /\ pushes'[q][i].rows = Body[q][k]
    <3>1. /\ pushes'[q] = pushes[q] /\ phase'[q] = phase[q] /\ chunk'[q] = chunk[q]
          /\ todo'[q] = todo[q] /\ claimed'[q] = claimed[q]
      BY <1>2, <1>4, <2>1
    <3> QED BY <3>1 DEF IInv, ParserProgress, LastChunk
  <2>2. /\ phase'[r] # "parsing" => claimed'[r] = {}
        /\ phase'[r] \in {"waiting", "ok"} => LastChunk(r)' /\ todo'[r] = {}
        /\ phase'[r] = "idle" => DOMAIN pushes'[r] = {} /\ chunk'[r] = 1
    BY <1>4 DEF LastChunk
  <2>3. phase'[r] = "parsing" => DOMAIN pushes'[r] = 1..(2 * (chunk'[r] - 1))
    <3>1. n = 2 * (chunk[r] - 1)
      <4>1. 1..n = 1..(2 * (chunk[r] - 1)) /\ 2 * (chunk[r] - 1) \in Nat
        BY <1>1, <1>2, <1>3 DEF IInv, ParserProgress
      <4> QED BY <1>2, <4>1, RangeEnd
    <3>2. phase'[r] = "parsing" => chunk'[r] = chunk[r] + 1
      BY <1>4
    <3>3. 2 * ((chunk[r] + 1) - 1) = n + 2
      BY <1>3, <3>1
    <3> QED BY <1>2, <3>2, <3>3
  <2>4. \A i \in DOMAIN pushes'[r] : pushes'[r][i].rows \subseteq SeriesOf(r)
    <3>1. \A i \in 1..n : pushes'[r][i].rows \subseteq SeriesOf(r)
      BY <1>2 DEF IInv, ParserProgress
    <3>2. pushes'[r][n + 1].rows \subseteq SeriesOf(r) /\ pushes'[r][n + 2].rows \subseteq SeriesOf(r)
      BY <1>2, <1>3
    <3>3. \A i \in 1..(n + 2) : i \in 1..n \/ i = n + 1 \/ i = n + 2
      BY <1>2
    <3> QED BY <1>2, <3>1, <3>2, <3>3
  <2>5. ASSUME NEW k \in DOMAIN Body[r],
               k < chunk'[r] \/ phase'[r] \in {"waiting", "ok"}
        PROVE  \E i \in DOMAIN pushes'[r] :
                  pushes'[r][i].table = "samples" /\ pushes'[r][i].rows = Body[r][k]
    <3>1. CASE k < chunk[r]
      <4>1. PICK i \in 1..n :
               pushes[r][i].table = "samples" /\ pushes[r][i].rows = Body[r][k]
        BY <1>2, <3>1 DEF IInv, ParserProgress
      <4> QED BY <1>2, <4>1
    <3>2. CASE ~(k < chunk[r])
      <4>1. k = chunk[r]
        BY <1>3, <1>4, <2>5, <3>2 DEF LastChunk
      <4>2. n + 2 \in 1..(n + 2)
        BY <1>2
      <4> QED BY <1>2, <4>1, <4>2
    <3> QED BY <3>1, <3>2
  <2> QED BY <2>1, <2>2, <2>4, <2>5, <2>3 DEF ParserProgress
<1>7. AttemptsInOrder'
  <2>1. ASSUME NEW q \in Requests, NEW i \in 1..MaxPushes, NEW m \in 1..RetryAttempts,
               promise'[<<q, i, m>>] # "none"
        PROVE  i \in DOMAIN pushes'[q] /\ m <= pushes'[q][i].tries
    <3>1. i \in DOMAIN pushes[q] /\ m <= pushes[q][i].tries
      BY <1>1, <2>1 DEF IInv, AttemptsInOrder
    <3> QED BY <1>2, <3>1
  <2>2. ASSUME NEW q \in Requests, NEW i \in DOMAIN pushes'[q]
        PROVE  /\ pushes'[q][i].tries > 0 => i \in 1..MaxPushes
               /\ \A m \in 1..RetryAttempts :
                    /\ m <= pushes'[q][i].tries => promise'[<<q, i, m>>] # "none"
                    /\ m < pushes'[q][i].tries => promise'[<<q, i, m>>] = "err"
                    /\ m <= pushes'[q][i].tries /\ promise'[<<q, i, m>>] = "ok"
                         /\ pushes'[q][i].rows # {} => <<q, i, m>> \in stored'
    <3>1. CASE i \in DOMAIN pushes[q]
      <4>1. pushes'[q][i] = pushes[q][i]
        BY <1>2, <3>1
      <4> QED BY <1>1, <3>1, <4>1 DEF IInv, AttemptsInOrder
    <3>2. CASE i \notin DOMAIN pushes[q]
      <4>1. q = r /\ (i = n + 1 \/ i = n + 2)
        BY <1>2, <2>2, <3>2
      <4>2. pushes'[q][i].tries = 0
        BY <1>2, <4>1
      <4> QED BY <4>2, PipelineAssumption
    <3> QED BY <3>1, <3>2
  <2>3. \A c \in stored' : promise'[c] \in {"ok", "err"}
    BY <1>1 DEF IInv, AttemptsInOrder
  <2> QED BY <2>1, <2>2, <2>3 DEF AttemptsInOrder
<1>8. AnswersCover'
  <2> SUFFICES ASSUME NEW q \in Requests
               PROVE  /\ phase'[q] = "ok" => AllOk(q)'
                      /\ phase'[q] = "err" =>
                           \/ q \in Malformed /\ 2 * Len(Body[q]) \notin DOMAIN pushes'[q]
                           \/ \E j \in DOMAIN pushes'[q] : PushFailed(q, j)'
    BY DEF AnswersCover
  <2>1. CASE q = r
    BY <1>4, <2>1
  <2>2. CASE q # r
    <3>1. pushes'[q] = pushes[q] /\ phase'[q] = phase[q] /\ promise' = promise
      BY <1>1, <1>2, <1>4, <2>2
    <3> QED BY <3>1 DEF IInv, AnswersCover, AllOk, PushOk, PushFailed, Outcome, LastCall
  <2> QED BY <2>1, <2>2
<1>9. SeriesAreHeld'
  <2>1. \A s \in Requests, g \in FP : Holds(s, g) => Holds(s, g)'
    <3> SUFFICES ASSUME NEW s \in Requests, NEW g \in FP, Holds(s, g) PROVE Holds(s, g)'
      OBVIOUS
    <3>1. CASE s # r
      BY <1>1, <1>2, <1>4, <3>1 DEF Holds
    <3>2. CASE s = r
      <4>1. CASE g \in claimed[r]
        <5>1. n + 1 \in 1..(n + 2)
          BY <1>2
        <5> QED BY <1>1, <1>2, <3>2, <4>1, <5>1 DEF Holds
      <4>2. CASE g \notin claimed[r]
        <5>1. PICK i \in 1..n :
                pushes[r][i].table = "time_series" /\ g \in pushes[r][i].rows
          BY <1>1, <1>2, <3>2, <4>2 DEF Holds
        <5>2. i \in DOMAIN pushes'[r] /\ pushes'[r][i] = pushes[r][i]
          BY <1>2, <5>1
        <5> QED BY <1>1, <3>2, <5>1, <5>2 DEF Holds
      <4> QED BY <4>1, <4>2
    <3> QED BY <3>1, <3>2
  <2>2. \A q \in Requests, g \in FP : Parsed(q, g)' => Parsed(q, g)
    <3> SUFFICES ASSUME NEW q \in Requests, NEW g \in FP, Parsed(q, g)' PROVE Parsed(q, g)
      OBVIOUS
    <3>1. CASE q # r
      BY <1>4, <3>1 DEF Parsed
    <3>2. CASE q = r
      <4>1. CASE LastChunk(r)
        BY <1>1, <1>4, <3>2, <4>1 DEF Parsed
      <4>2. CASE ~LastChunk(r)
        <5>1. chunk'[r] = chunk[r] + 1 /\ todo'[r] = Body[r][chunk'[r]]
          BY <1>4, <4>2
        <5>2. PICK k \in DOMAIN Body[r] : k < chunk[r] + 1 /\ g \in Body[r][k]
          BY <3>2, <5>1 DEF Parsed
        <5>3. k < chunk[r] \/ k = chunk[r]
          BY <1>3, <5>2
        <5> QED BY <1>1, <3>2, <5>2, <5>3 DEF Parsed
      <4> QED BY <4>1, <4>2
    <3> QED BY <3>1, <3>2
  <2> QED BY <1>1, <2>1, <2>2 DEF IInv, SeriesAreHeld, TypeOK
<1> QED BY <1>5, <1>6, <1>7, <1>8, <1>9 DEF IInv

LEMMA DecodeErrorIInv == ASSUME IInv, NEW r \in Requests, DecodeError(r) PROVE IInv'
<1>1. /\ phase[r] = "parsing" /\ r \in Malformed
      /\ phase' = [phase EXCEPT ![r] = "err"]
      /\ claimed' = [claimed EXCEPT ![r] = {}]
      /\ UNCHANGED <<isDistributed, cache, chunk, todo, pushes, promise, stored, lost, marked>>
  BY DEF DecodeError, serviceVars
<1>2. /\ phase \in [Requests -> {"idle", "parsing", "waiting", "ok", "err"}]
      /\ claimed \in [Requests -> SUBSET FP]
      /\ claimed[r] \subseteq Body[r][chunk[r]] /\ Body[r][chunk[r]] \subseteq SeriesOf(r)
  BY BodyFacts DEF IInv, TypeOK
<1>3. /\ \A q \in Requests : q # r => phase'[q] = phase[q] /\ claimed'[q] = claimed[q]
      /\ phase'[r] = "err" /\ claimed'[r] = {}
      /\ claimed' \in [Requests -> SUBSET FP]
      /\ phase' \in [Requests -> {"idle", "parsing", "waiting", "ok", "err"}]
  BY <1>1, <1>2
<1>4. TypeOK'
  BY <1>1, <1>3 DEF IInv, TypeOK
<1>5. ParserProgress'
  BY <1>1, <1>3 DEF IInv, ParserProgress, LastChunk
<1>6. 2 * Len(Body[r]) \notin DOMAIN pushes[r]
  <2>1. DOMAIN pushes[r] = 1..(2 * (chunk[r] - 1))
    BY <1>1 DEF IInv, ParserProgress
  <2> QED BY <2>1, BodyFacts DEF IInv, TypeOK
<1>7. AttemptsInOrder' /\ AnswersCover'
  BY <1>1, <1>3, <1>6, CallsFrame DEF IInv, AnswersCover
<1>8. \A s \in Requests, g \in FP : Holds(s, g) => Holds(s, g)'
  BY <1>1, <1>2, <1>3 DEF Holds
<1>9. \A q \in Requests, g \in FP : Parsed(q, g)' <=> Parsed(q, g)
  BY <1>1 DEF Parsed
<1>10. SeriesAreHeld'
  BY <1>1, <1>8, <1>9 DEF IInv, SeriesAreHeld, TypeOK
<1> QED BY <1>4, <1>5, <1>7, <1>10 DEF IInv

(* CacheReset and CacheEvicts: the cache may forget any key at any time. *)
LEMMA CacheForgetsIInv ==
  ASSUME IInv, CacheReset \/ \E fp \in FP : CacheEvicts(fp)
  PROVE  IInv'
<1>1. /\ cache' \subseteq cache
      /\ UNCHANGED <<isDistributed, phase, chunk, todo, claimed, pushes, promise, stored,
                     lost, marked>>
  BY DEF CacheReset, CacheEvicts, serviceVars
<1>2. TypeOK'
  BY <1>1 DEF IInv, TypeOK
<1>3. ParserProgress'
  BY <1>1 DEF IInv, ParserProgress, LastChunk
<1>4. AttemptsInOrder' /\ AnswersCover'
  BY <1>1, CallsFrame DEF IInv, AnswersCover
<1>5. SeriesAreHeld'
  BY <1>1 DEF IInv, SeriesAreHeld, Parsed, Holds
<1> QED BY <1>2, <1>3, <1>4, <1>5 DEF IInv
-----------------------------------------------------------------------------
(* The pushes and their answers. *)

(* A step of the pushes that keeps their rows keeps what the parser did    *)
(* and who holds a series.                                                 *)
LEMMA ParserFrame ==
  ASSUME IInv, UNCHANGED <<isDistributed, cache, chunk, todo, claimed, marked, phase>>,
         \A q \in Requests :
            /\ DOMAIN pushes'[q] = DOMAIN pushes[q]
            /\ \A j \in DOMAIN pushes[q] :
                  /\ pushes'[q][j].rows = pushes[q][j].rows
                  /\ pushes'[q][j].table = pushes[q][j].table
  PROVE  ParserProgress' /\ SeriesAreHeld'
<1>1. ParserProgress'
  BY DEF IInv, ParserProgress, LastChunk
<1>2. \A q \in Requests, g \in FP : Parsed(q, g)' <=> Parsed(q, g)
  BY DEF Parsed
<1>3. \A s \in Requests, g \in FP : Holds(s, g) => Holds(s, g)'
  BY DEF Holds
<1>4. SeriesAreHeld'
  BY <1>2, <1>3 DEF IInv, SeriesAreHeld, TypeOK
<1> QED BY <1>1, <1>4

(* What an attempt does to the promises: its call was not made before, and *)
(* it is now pending, or fulfilled at once if there is no row.             *)
LEMMA DoPushCalls ==
  ASSUME IInv, NEW r \in Requests, NEW i \in 1..MaxPushes, DoPush(r, i)
  PROVE  LET c == <<r, i, pushes[r][i].tries + 1>>
         IN  /\ c \in Calls /\ promise[c] = "none" /\ stored' = stored
             /\ promise' \in [Calls -> Service!Outcomes]
             /\ \A d \in Calls : d # c => promise'[d] = promise[d]
             /\ promise'[c] # "none"
             /\ promise'[c] = "ok" => pushes[r][i].rows = {}
             /\ lost' \in SUBSET Calls
<1> DEFINE c == <<r, i, pushes[r][i].tries + 1>>
<1>1. i \in DOMAIN pushes[r] /\ pushes[r][i].tries < RetryAttempts
  BY DoPushCounts DEF IInv
<1>2. pushes[r][i].tries \in Nat /\ pushes[r][i].tries + 1 \in 1..RetryAttempts
  BY <1>1, PushDomain, PipelineAssumption DEF IInv
<1>3. c \in Calls
  BY <1>2 DEF Calls
<1>4. ~(pushes[r][i].tries + 1 <= pushes[r][i].tries)
  BY <1>2
<1>5. promise[c] = "none"
  BY <1>2, <1>4 DEF IInv, AttemptsInOrder
<1>6. promise \in [Calls -> Service!Outcomes]
  BY DEF IInv, TypeOK
<1>7. lost \in SUBSET Calls
  BY DEF IInv, TypeOK
<1>8. CASE pushes[r][i].rows = {}
  <2>1. Service!Settle({c}, "ok") /\ stored' = stored /\ lost' = lost
    BY <1>8 DEF DoPush
  <2>2. promise' = [d \in Calls |-> IF d \in {c} THEN "ok" ELSE promise[d]]
    BY <2>1 DEF Service!Settle
  <2> QED BY <1>3, <1>5, <1>6, <1>8, <1>7, <2>1, <2>2 DEF Service!Outcomes
<1>9. CASE pushes[r][i].rows # {}
  <2>1. /\ Service!Settle({c}, "pending") /\ stored' = stored
        /\ lost' = lost \/ lost' = lost \cup {c}
    BY <1>9 DEF DoPush, Service!Accept
  <2>2. promise' = [d \in Calls |-> IF d \in {c} THEN "pending" ELSE promise[d]]
    BY <2>1 DEF Service!Settle
  <2> QED BY <1>3, <1>5, <1>6, <1>9, <1>7, <2>1, <2>2 DEF Service!Outcomes
<1> QED BY <1>8, <1>9

LEMMA DoPushIInv ==
  ASSUME IInv, NEW r \in Requests, NEW i \in 1..MaxPushes, DoPush(r, i)
  PROVE  IInv'
<1> DEFINE m == pushes[r][i].tries + 1
           c == <<r, i, m>>
<1>1. /\ UNCHANGED <<isDistributed, cache, chunk, todo, claimed, marked, phase>>
      /\ lost' \in SUBSET Calls
  BY DoPushCalls DEF DoPush, parserVars
<1>2. /\ i \in DOMAIN pushes[r] /\ pushes[r][i].tries < RetryAttempts
      /\ pushes' \in [Requests -> Seq(Push)]
      /\ \A q \in Requests :
               /\ DOMAIN pushes'[q] = DOMAIN pushes[q]
               /\ \A j \in DOMAIN pushes[q] :
                     /\ pushes'[q][j].rows = pushes[q][j].rows
                     /\ pushes'[q][j].table = pushes[q][j].table
                     /\ pushes'[q][j].tries =
                           IF q = r /\ j = i THEN pushes[q][j].tries + 1
                                             ELSE pushes[q][j].tries
  BY DoPushCounts DEF IInv
<1>3. /\ c \in Calls /\ promise[c] = "none" /\ stored' = stored
      /\ promise' \in [Calls -> Service!Outcomes]
      /\ \A d \in Calls : d # c => promise'[d] = promise[d]
      /\ promise'[c] # "none"
      /\ promise'[c] = "ok" => pushes[r][i].rows = {}
  BY DoPushCalls
<1>4. pushes[r][i].tries \in Nat /\ m \in 1..RetryAttempts /\ m > pushes[r][i].tries
  BY <1>2, PushDomain, PipelineAssumption DEF IInv
<1>5. Outcome(r, i) \in {"none", "err"}
  BY DEF DoPush, MayTry
<1>6. TypeOK'
  BY <1>1, <1>2, <1>3 DEF IInv, TypeOK
<1>7. ParserProgress' /\ SeriesAreHeld'
  BY <1>1, <1>2, ParserFrame
<1>8. \A q \in Requests, j \in 1..MaxPushes, n \in 1..RetryAttempts :
         <<q, j, n>> \in Calls /\ (<<q, j, n>> = c <=> q = r /\ j = i /\ n = m)
  BY DEF Calls
<1> HIDE DEF c, m
<1>9. AttemptsInOrder'
  <2>1. ASSUME NEW q \in Requests, NEW j \in 1..MaxPushes, NEW n \in 1..RetryAttempts,
               promise'[<<q, j, n>>] # "none"
        PROVE  j \in DOMAIN pushes'[q] /\ n <= pushes'[q][j].tries
    <3>1. CASE <<q, j, n>> = c
      <4>1. q = r /\ j = i /\ n = m
        BY <1>8, <3>1
      <4>2. pushes'[r][i].tries = m
        BY <1>2 DEF m
      <4> QED BY <1>2, <1>4, <4>1, <4>2
    <3>2. CASE <<q, j, n>> # c
      <4>1. promise[<<q, j, n>>] # "none"
        BY <1>3, <1>8, <2>1, <3>2
      <4>2. j \in DOMAIN pushes[q] /\ n <= pushes[q][j].tries
        BY <4>1 DEF IInv, AttemptsInOrder
      <4>3. pushes[q][j].tries \in Nat
        BY <4>2, PushDomain, PipelineAssumption DEF IInv
      <4> QED BY <1>2, <4>2, <4>3
    <3> QED BY <3>1, <3>2
  <2>2. ASSUME NEW q \in Requests, NEW j \in DOMAIN pushes'[q]
        PROVE  /\ pushes'[q][j].tries > 0 => j \in 1..MaxPushes
               /\ \A n \in 1..RetryAttempts :
                    /\ n <= pushes'[q][j].tries => promise'[<<q, j, n>>] # "none"
                    /\ n < pushes'[q][j].tries => promise'[<<q, j, n>>] = "err"
                    /\ n <= pushes'[q][j].tries /\ promise'[<<q, j, n>>] = "ok"
                         /\ pushes'[q][j].rows # {} => <<q, j, n>> \in stored'
    <3>1. j \in DOMAIN pushes[q] /\ pushes[q][j].tries \in Nat
      BY <1>2, PushDomain, PipelineAssumption DEF IInv
    <3>2. CASE q = r /\ j = i
      <4>1. pushes'[q][j].tries = m /\ pushes'[q][j].rows = pushes[r][i].rows
        BY <1>2, <3>1, <3>2 DEF m
      <4>2. ASSUME NEW n \in 1..RetryAttempts, n < m
            PROVE  promise'[<<q, j, n>>] = "err"
        <5>1. promise[<<q, j, n>>] = "err"
          <6>1. CASE n < pushes[r][i].tries
            BY <3>1, <3>2, <6>1 DEF IInv, AttemptsInOrder
          <6>2. CASE n = pushes[r][i].tries
            <7>1. promise[<<r, i, n>>] \in {"none", "err"}
              BY <1>4, <1>5, <6>2 DEF Outcome, LastCall
            <7>2. i \in DOMAIN pushes[r] /\ pushes[r][i].tries > 0
              BY <1>2, <1>4, <6>2
            <7>3. promise[<<r, i, n>>] # "none"
              BY <1>2, <1>4, <6>2, <7>2 DEF IInv, AttemptsInOrder
            <7> QED BY <3>2, <7>1, <7>3
          <6> QED BY <1>4, <4>2, <6>1, <6>2 DEF m
        <5> QED BY <1>3, <1>4, <1>8, <3>2, <4>2, <5>1
      <4>3. ASSUME NEW n \in 1..RetryAttempts, n <= m, promise'[<<q, j, n>>] = "ok",
                   pushes'[q][j].rows # {}
            PROVE  FALSE
        <5>1. n = m
          BY <1>4, <4>2, <4>3
        <5>2. <<q, j, n>> = c
          BY <3>2, <5>1 DEF c
        <5> QED BY <1>3, <4>1, <4>3, <5>2
      <4>4. promise'[<<q, j, m>>] # "none"
        BY <1>3, <3>2 DEF c
      <4>5. \A n \in 1..RetryAttempts : n <= m => n < m \/ n = m
        BY <1>4
      <4>6. \A n \in 1..RetryAttempts : n <= m => promise'[<<q, j, n>>] # "none"
        BY <4>2, <4>4, <4>5
      <4> QED BY <3>2, <4>1, <4>2, <4>3, <4>6
    <3>3. CASE ~(q = r /\ j = i)
      <4>1. pushes'[q][j].tries = pushes[q][j].tries /\ pushes'[q][j].rows = pushes[q][j].rows
        BY <1>2, <3>1, <3>3
      <4>2. pushes[q][j].tries > 0 => j \in 1..MaxPushes
        BY <3>1 DEF IInv, AttemptsInOrder
      <4>3. \A n \in 1..RetryAttempts :
               n <= pushes[q][j].tries => promise'[<<q, j, n>>] = promise[<<q, j, n>>]
        BY <1>3, <1>8, <3>1, <3>3, <4>2
      <4> QED BY <1>3, <3>1, <4>1, <4>2, <4>3 DEF IInv, AttemptsInOrder
    <3> QED BY <3>2, <3>3
  <2>3. \A d \in stored' : promise'[d] \in {"ok", "err"}
    <3>1. \A d \in stored : d \in Calls /\ promise[d] \in {"ok", "err"}
      BY DEF IInv, AttemptsInOrder, TypeOK
    <3> QED BY <1>3, <3>1
  <2> QED BY <2>1, <2>2, <2>3 DEF AttemptsInOrder
<1>10. AnswersCover'
  <2> SUFFICES ASSUME NEW q \in Requests
               PROVE  /\ phase'[q] = "ok" => AllOk(q)'
                      /\ phase'[q] = "err" =>
                           \/ q \in Malformed /\ 2 * Len(Body[q]) \notin DOMAIN pushes'[q]
                           \/ \E j \in DOMAIN pushes'[q] : PushFailed(q, j)'
    BY DEF AnswersCover
  <2>1. ASSUME phase[q] = "ok" PROVE AllOk(q)'
    <3>1. AllOk(q)
      BY <2>1 DEF IInv, AnswersCover
    <3>2. q # r
      BY <1>2, <1>5, <3>1 DEF AllOk, PushOk
    <3>3. ASSUME NEW j \in DOMAIN pushes[q] PROVE PushOk(q, j)'
      <4>1. /\ pushes[q][j].tries # 0 /\ promise[<<q, j, pushes[q][j].tries>>] = "ok"
            /\ pushes'[q][j].tries = pushes[q][j].tries
        BY <1>2, <3>1, <3>2 DEF AllOk, PushOk, Outcome, LastCall
      <4>2. pushes[q][j].tries \in 1..RetryAttempts /\ j \in 1..MaxPushes
        BY <4>1, PushDomain, PipelineAssumption DEF IInv, AttemptsInOrder
      <4>3. promise'[<<q, j, pushes[q][j].tries>>] = "ok"
        BY <1>3, <1>8, <3>2, <4>1, <4>2
      <4> QED BY <4>1, <4>3 DEF PushOk, Outcome, LastCall
    <3> QED BY <1>2, <3>3 DEF AllOk
  <2>2. ASSUME NEW j \in DOMAIN pushes[q], PushFailed(q, j) PROVE PushFailed(q, j)'
    <3>1. /\ pushes[q][j].tries = RetryAttempts
          /\ promise[<<q, j, RetryAttempts>>] = "err"
      BY <2>2, PipelineAssumption DEF PushFailed, Outcome, LastCall
    <3>2. j \in 1..MaxPushes /\ RetryAttempts \in 1..RetryAttempts
      BY <3>1, PipelineAssumption DEF IInv, AttemptsInOrder
    <3>3. <<q, j, RetryAttempts>> # c
      BY <1>3, <3>1
    <3>4. promise'[<<q, j, RetryAttempts>>] = "err"
      BY <1>3, <1>8, <3>1, <3>2, <3>3
    <3>5. pushes'[q][j].tries = RetryAttempts
      <4>1. ~(q = r /\ j = i)
        BY <1>2, <1>4, <3>1
      <4>2. pushes'[q][j].tries = pushes[q][j].tries
        BY <1>2, <4>1
      <4> QED BY <3>1, <4>2
    <3> QED BY <3>4, <3>5, PipelineAssumption DEF PushFailed, Outcome, LastCall
  <2> QED BY <1>1, <1>2, <2>1, <2>2 DEF IInv, AnswersCover
<1> QED BY <1>6, <1>7, <1>9, <1>10 DEF IInv

LEMMA ServiceAnswersIInv ==
  ASSUME IInv, NEW c \in Calls, ServiceAnswers(c)
  PROVE  IInv'
<1>1. UNCHANGED <<isDistributed, cache, chunk, todo, claimed, marked, phase, pushes, lost>>
  BY DEF ServiceAnswers, parserVars
<1>2. promise \in [Calls -> Service!Outcomes] /\ stored \subseteq Calls
      /\ promise[c] = "pending"
  BY DEF IInv, TypeOK, ServiceAnswers
<1>3. \E out \in {"ok", "err"} :
        /\ promise' = [d \in Calls |-> IF d \in {c} THEN out ELSE promise[d]]
        /\ stored \subseteq stored' /\ stored' \subseteq stored \cup {c}
        /\ out = "ok" => c \in stored'
  BY DEF ServiceAnswers, Service!Acknowledge, Service!Fail, Service!Settle
<1>4. /\ promise' \in [Calls -> Service!Outcomes]
      /\ promise'[c] \in {"ok", "err"}
      /\ \A d \in Calls : d # c => promise'[d] = promise[d]
      /\ stored \subseteq stored' /\ stored' \subseteq stored \cup {c}
      /\ promise'[c] = "ok" => c \in stored'
  BY <1>2, <1>3 DEF Service!Outcomes
<1>5. TypeOK'
  BY <1>1, <1>2, <1>4 DEF IInv, TypeOK
<1>6. ParserProgress' /\ SeriesAreHeld'
  BY <1>1, ParserFrame
<1>7. \A q \in Requests, j \in 1..MaxPushes, n \in 1..RetryAttempts : <<q, j, n>> \in Calls
  BY DEF Calls
<1>8. AttemptsInOrder'
  <2>1. ASSUME NEW q \in Requests, NEW j \in 1..MaxPushes, NEW n \in 1..RetryAttempts,
               promise'[<<q, j, n>>] # "none"
        PROVE  j \in DOMAIN pushes'[q] /\ n <= pushes'[q][j].tries
    <3>1. promise[<<q, j, n>>] # "none"
      BY <1>2, <1>4, <1>7, <2>1
    <3> QED BY <1>1, <3>1 DEF IInv, AttemptsInOrder
  <2>2. ASSUME NEW q \in Requests, NEW j \in DOMAIN pushes'[q]
        PROVE  /\ pushes'[q][j].tries > 0 => j \in 1..MaxPushes
               /\ \A n \in 1..RetryAttempts :
                    /\ n <= pushes'[q][j].tries => promise'[<<q, j, n>>] # "none"
                    /\ n < pushes'[q][j].tries => promise'[<<q, j, n>>] = "err"
                    /\ n <= pushes'[q][j].tries /\ promise'[<<q, j, n>>] = "ok"
                         /\ pushes'[q][j].rows # {} => <<q, j, n>> \in stored'
    <3>1. pushes' = pushes /\ j \in DOMAIN pushes[q] /\ pushes[q][j].tries \in Nat
      BY <1>1, PushDomain, PipelineAssumption DEF IInv
    <3>2. pushes[q][j].tries > 0 => j \in 1..MaxPushes
      BY <3>1 DEF IInv, AttemptsInOrder
    <3>3. ASSUME NEW n \in 1..RetryAttempts, n <= pushes[q][j].tries
          PROVE  /\ promise'[<<q, j, n>>] # "none"
                 /\ n < pushes[q][j].tries => promise'[<<q, j, n>>] = "err"
                 /\ promise'[<<q, j, n>>] = "ok" /\ pushes[q][j].rows # {} =>
                       <<q, j, n>> \in stored'
      <4>1. <<q, j, n>> \in Calls
        BY <1>7, <3>1, <3>2, <3>3
      <4>2. /\ promise[<<q, j, n>>] # "none"
            /\ n < pushes[q][j].tries => promise[<<q, j, n>>] = "err"
            /\ promise[<<q, j, n>>] = "ok" /\ pushes[q][j].rows # {} =>
                  <<q, j, n>> \in stored
        BY <3>1, <3>3 DEF IInv, AttemptsInOrder
      <4>3. CASE <<q, j, n>> = c
        BY <1>2, <1>4, <4>2, <4>3
      <4>4. CASE <<q, j, n>> # c
        BY <1>4, <4>1, <4>2, <4>4
      <4> QED BY <4>3, <4>4
    <3>4. \A n \in 1..RetryAttempts : n < pushes[q][j].tries => n <= pushes[q][j].tries
      BY <3>1
    <3> QED BY <3>1, <3>2, <3>3, <3>4
  <2>3. \A d \in stored' : promise'[d] \in {"ok", "err"}
    <3>1. \A d \in stored : d \in Calls /\ promise[d] \in {"ok", "err"}
      BY <1>2 DEF IInv, AttemptsInOrder
    <3> QED BY <1>4, <3>1
  <2> QED BY <2>1, <2>2, <2>3 DEF AttemptsInOrder
<1>9. ASSUME NEW q \in Requests, NEW j \in DOMAIN pushes[q]
      PROVE  /\ PushOk(q, j) => PushOk(q, j)'
             /\ PushFailed(q, j) => PushFailed(q, j)'
  <2> DEFINE n == pushes[q][j].tries
  <2>1. n \in Nat /\ n <= RetryAttempts
    BY PushDomain, PipelineAssumption DEF IInv
  <2>2. n > 0 => <<q, j, n>> \in Calls
    <3>1. n > 0 => j \in 1..MaxPushes /\ n \in 1..RetryAttempts
      BY <2>1, PipelineAssumption DEF IInv, AttemptsInOrder
    <3> QED BY <1>7, <3>1
  <2>3. n > 0 /\ promise[<<q, j, n>>] \in {"ok", "err"} =>
           promise'[<<q, j, n>>] = promise[<<q, j, n>>]
    BY <1>2, <1>4, <2>2
  <2>4. pushes'[q][j].tries = n /\ (n # 0 => n > 0)
    BY <1>1, <2>1
  <2> HIDE DEF n
  <2> QED BY <2>3, <2>4 DEF PushOk, PushFailed, Outcome, LastCall, n
<1>10. AnswersCover'
  BY <1>1, <1>9 DEF IInv, AnswersCover, AllOk
<1> QED BY <1>5, <1>6, <1>8, <1>10 DEF IInv

(* doParse answers: AnswerOk and AnswerErr change the phase only. *)
LEMMA AnswerIInv ==
  ASSUME IInv, NEW r \in Requests, AnswerOk(r) \/ AnswerErr(r)
  PROVE  IInv'
<1>1. /\ phase[r] = "waiting"
      /\ UNCHANGED <<isDistributed, cache, chunk, todo, claimed, pushes, promise, stored,
                     lost, marked>>
  BY DEF AnswerOk, AnswerErr, parserVars, serviceVars
<1>2. /\ phase \in [Requests -> {"idle", "parsing", "waiting", "ok", "err"}]
      /\ \E p \in {"ok", "err"} : phase' = [phase EXCEPT ![r] = p]
  BY DEF IInv, TypeOK, AnswerOk, AnswerErr
<1>3. /\ phase' \in [Requests -> {"idle", "parsing", "waiting", "ok", "err"}]
      /\ phase'[r] \in {"ok", "err"}
      /\ \A q \in Requests : q # r => phase'[q] = phase[q]
  BY <1>2
<1>4. TypeOK'
  BY <1>1, <1>3 DEF IInv, TypeOK
<1>5. ParserProgress'
  BY <1>1, <1>3 DEF IInv, ParserProgress, LastChunk
<1>6. AnswersCover'
  <2>1. phase'[r] = "ok" => AllOk(r)
    BY <1>2 DEF AnswerOk, AnswerErr
  <2>2. phase'[r] = "err" => \E i \in DOMAIN pushes[r] : PushFailed(r, i)
    BY <1>2 DEF AnswerOk, AnswerErr
  <2> QED BY <1>1, <1>3, <2>1, <2>2, CallsFrame DEF IInv, AnswersCover
<1>7. \A s \in Requests, g \in FP : Holds(s, g) => Holds(s, g)'
  BY <1>1, <1>3 DEF Holds
<1>8. \A q \in Requests, g \in FP : Parsed(q, g)' <=> Parsed(q, g)
  BY <1>1 DEF Parsed
<1>9. SeriesAreHeld'
  BY <1>1, <1>7, <1>8 DEF IInv, SeriesAreHeld, TypeOK
<1> QED BY <1>1, <1>4, <1>5, <1>6, <1>9, CallsFrame DEF IInv

LEMMA NextIInv == ASSUME IInv, [Next]_vars PROVE IInv'
<1>1. CASE UNCHANGED vars
  <2>1. UNCHANGED <<isDistributed, cache, phase, chunk, todo, claimed, pushes, promise,
                    stored, lost, marked>>
    BY <1>1 DEF vars
  <2>2. TypeOK'
    BY <2>1 DEF IInv, TypeOK
  <2> QED BY <2>1, <2>2, ParserFrame, CallsFrame DEF IInv, AnswersCover
<1>2. ASSUME NEW r \in Requests, Parse(r) PROVE IInv'
  BY <1>2, StartIInv, OnEntriesIInv, FlushIInv, DecodeErrorIInv DEF Parse
<1> QED BY <1>1, <1>2, AnswerIInv, DoPushIInv, ServiceAnswersIInv, CacheForgetsIInv
        DEF Next

(* The inductive invariant holds in every reachable state. *)
THEOREM InvariantHolds == Spec => []IInv
<1>1. Init => IInv
  BY InitIInv
<1>2. IInv /\ [Next]_vars => IInv'
  BY NextIInv
<1> QED BY <1>1, <1>2, PTL DEF Spec
-----------------------------------------------------------------------------
(* A push that went well has its rows in the table. *)
LEMMA OkIsStored ==
  ASSUME IInv, NEW r \in Requests, NEW i \in DOMAIN pushes[r], PushOk(r, i),
         pushes[r][i].rows # {}
  PROVE  Stored(r, i)
<1>1. pushes[r][i].tries # 0 /\ promise[<<r, i, pushes[r][i].tries>>] = "ok"
  BY DEF PushOk, Outcome, LastCall
<1>2. pushes[r][i].tries \in 1..RetryAttempts /\ pushes[r][i].tries <= pushes[r][i].tries
  BY <1>1, PushDomain, PipelineAssumption DEF IInv
<1>3. <<r, i, pushes[r][i].tries>> \in stored
  BY <1>1, <1>2 DEF IInv, AttemptsInOrder
<1> QED BY <1>2, <1>3 DEF Stored

(* AnswersAreTrue: a client that is told "success" has every chunk of its  *)
(* samples and every time_series row it had to write in ClickHouse; one    *)
(* that is told of an error sent a body that does not decode, or one of    *)
(* its pushes failed RetryAttempts times (doParse, doPush).                *)
THEOREM AnswersTrue == Spec => []AnswersAreTrue
<1>1. IInv => OkMeansStored
  <2> SUFFICES ASSUME IInv, NEW r \in Requests, phase[r] = "ok"
               PROVE  /\ \A i \in DOMAIN pushes[r] : pushes[r][i].rows # {} => Stored(r, i)
                      /\ \A k \in DOMAIN Body[r] :
                           \E i \in DOMAIN pushes[r] :
                              pushes[r][i].table = "samples" /\ pushes[r][i].rows = Body[r][k]
    BY DEF OkMeansStored
  <2>1. \A i \in DOMAIN pushes[r] : PushOk(r, i)
    BY DEF IInv, AnswersCover, AllOk
  <2>2. \A i \in DOMAIN pushes[r] : pushes[r][i].rows # {} => Stored(r, i)
    BY <2>1, OkIsStored
  <2> QED BY <2>2 DEF IInv, ParserProgress
<1>2. IInv => ErrorMeansExhausted
  <2> SUFFICES ASSUME IInv, NEW r \in Requests, phase[r] = "err",
                      ~(r \in Malformed /\ 2 * Len(Body[r]) \notin DOMAIN pushes[r])
               PROVE  \E i \in DOMAIN pushes[r] :
                        \A n \in 1..RetryAttempts : promise[<<r, i, n>>] = "err"
    BY DEF ErrorMeansExhausted
  <2>1. PICK i \in DOMAIN pushes[r] : PushFailed(r, i)
    BY DEF IInv, AnswersCover
  <2>2. /\ pushes[r][i].tries = RetryAttempts
        /\ promise[<<r, i, RetryAttempts>>] = "err"
    BY <2>1, PipelineAssumption DEF PushFailed, Outcome, LastCall
  <2>3. ASSUME NEW n \in 1..RetryAttempts PROVE promise[<<r, i, n>>] = "err"
    <3>1. n = RetryAttempts \/ n < pushes[r][i].tries
      BY <2>2, PipelineAssumption
    <3> QED BY <2>2, <3>1 DEF IInv, AttemptsInOrder
  <2> QED BY <2>3
<1>3. IInv => AnswersAreTrue
  BY <1>1, <1>2 DEF IInv, AnswersAreTrue
<1> QED BY <1>3, InvariantHolds, PTL

(* DuplicatesNeedFailure: rows are in the table twice only if an attempt   *)
(* that was reported as failed had stored them; doPush repeats nothing     *)
(* that is pending or went well.                                           *)
THEOREM DuplicatesHaveCause == Spec => []DuplicatesNeedFailure
<1>1. IInv => DuplicatesNeedFailure
  <2> SUFFICES ASSUME IInv, NEW c \in stored, NEW d \in stored,
                      c[1] = d[1], c[2] = d[2], c[3] < d[3]
               PROVE  promise[c] = "err"
    BY DEF DuplicatesNeedFailure
  <2>1. c \in Calls /\ d \in Calls /\ promise[d] \in {"ok", "err"}
    BY DEF IInv, TypeOK, AttemptsInOrder
  <2>2. PICK r \in Requests, i \in 1..MaxPushes, m \in 1..RetryAttempts : c = <<r, i, m>>
    BY <2>1 DEF Calls
  <2>3. PICK n \in 1..RetryAttempts : d = <<r, i, n>>
    BY <2>1, <2>2 DEF Calls
  <2>4. i \in DOMAIN pushes[r] /\ n <= pushes[r][i].tries
    BY <2>1, <2>3 DEF IInv, AttemptsInOrder
  <2>5. m < pushes[r][i].tries
    BY <2>2, <2>3, <2>4, PushDomain, PipelineAssumption DEF IInv
  <2> QED BY <2>2, <2>4, <2>5 DEF IInv, AttemptsInOrder
<1> QED BY <1>1, InvariantHolds, PTL

(* What a request that succeeded has parsed: all its series. *)
LEMMA OkHasParsed ==
  ASSUME IInv, NEW r \in Requests, phase[r] = "ok", NEW fp \in SeriesOf(r)
  PROVE  fp \in FP /\ Parsed(r, fp)
<1>1. PICK k \in DOMAIN Body[r] : fp \in Body[r][k]
  BY DEF SeriesOf, Range
<1>2. chunk[r] = Len(Body[r]) /\ todo[r] = {}
  BY DEF IInv, ParserProgress, LastChunk
<1>3. k < chunk[r] \/ k = chunk[r]
  BY <1>1, <1>2, BodyFacts
<1>4. fp \in FP
  BY <1>1, BodyFacts
<1> QED BY <1>1, <1>2, <1>3, <1>4 DEF Parsed

(* A series that a request holds when it has succeeded is in the index,    *)
(* under the tenant of that request.                                       *)
LEMMA OkHolderIndexes ==
  ASSUME IInv, NEW s \in Requests, phase[s] = "ok", NEW fp \in FP, Holds(s, fp)
  PROVE  IndexedFor(Tenant[s], fp)
<1>1. claimed[s] = {}
  BY DEF IInv, ParserProgress
<1>2. PICK i \in DOMAIN pushes[s] :
         pushes[s][i].table = "time_series" /\ fp \in pushes[s][i].rows
  BY <1>1 DEF Holds
<1>3. PushOk(s, i)
  BY DEF IInv, AnswersCover, AllOk
<1>4. Stored(s, i)
  BY <1>2, <1>3, OkIsStored
<1> QED BY <1>2, <1>4 DEF IndexedFor

(* IndexLossHasCulprit: a series of an acknowledged request is missing in  *)
(* the index only on a single node, where the fingerprint cache is on, and *)
(* only because of a request that claimed it and has not succeeded         *)
(* (maybeAddFp, flush, numbercache).                                       *)
THEOREM IndexLossExplained == Spec => []IndexLossHasCulprit
<1>1. IInv => SeriesLossHasCulprit
  <2> SUFFICES ASSUME IInv, NEW r \in Requests, phase[r] = "ok", NEW fp \in SeriesOf(r)
               PROVE  \/ Indexed(fp)
                      \/ \E s \in Requests : fp \in marked[s] /\ phase[s] \notin {"idle", "ok"}
    BY DEF SeriesLossHasCulprit
  <2>1. fp \in FP /\ Parsed(r, fp)
    BY OkHasParsed
  <2>2. PICK s \in Requests : Holds(s, fp)
    BY <2>1 DEF IInv, SeriesAreHeld
  <2>3. fp \in marked[s]
    BY <2>2 DEF Holds
  <2>4. phase[s] # "idle"
    BY <2>2 DEF Holds, IInv, ParserProgress
  <2>5. CASE phase[s] = "ok"
    <3>1. IndexedFor(Tenant[s], fp)
      BY <2>1, <2>2, <2>5, OkHolderIndexes
    <3>2. Tenant[s] \in Tenants
      BY PipelineAssumption
    <3> QED BY <3>1, <3>2 DEF Indexed
  <2> QED BY <2>3, <2>4, <2>5
<1>2. IInv => ClusterIndexesEverySeries
  <2> SUFFICES ASSUME IInv, isDistributed, NEW r \in Requests, phase[r] = "ok",
                      NEW fp \in SeriesOf(r)
               PROVE  IndexedFor(Tenant[r], fp)
    BY DEF ClusterIndexesEverySeries
  <2>1. fp \in FP /\ Parsed(r, fp)
    BY OkHasParsed
  <2>2. Holds(r, fp)
    BY <2>1 DEF IInv, SeriesAreHeld
  <2> QED BY <2>1, <2>2, OkHolderIndexes
<1>3. IInv => IndexLossHasCulprit
  BY <1>1, <1>2 DEF IndexLossHasCulprit
<1> QED BY <1>3, InvariantHolds, PTL
=============================================================================
