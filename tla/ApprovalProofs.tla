--------------------------- MODULE ApprovalProofs ---------------------------
(***************************************************************************)
(* Theorems about the approval broker, for any ids, sessions and bounds:    *)
(* its types, who allowed what is allowed, what the end of an ask leaves    *)
(* behind, and what a timed ask has to resolve it.                          *)
(***************************************************************************)
EXTENDS ApprovalBroker, SequenceTheorems, WellFoundedInduction, TLAPS

(* A set of numbers has a least one.                                       *)
LEMMA Least ==
  ASSUME NEW S, S \subseteq Nat, S # {}
  PROVE  First(S) \in S /\ \A i \in S : First(S) <= i
<1> DEFINE R == OpToRel(<, Nat)
<1>1. IsWellFoundedOn(R, Nat)
  BY NatLessThanWellFounded
<1>2. \E x \in S : \A y \in S : ~ (<<y, x>> \in R)
  <2> HIDE DEF R
  <2> QED BY <1>1, WFMin, Zenon
<1>3. \A x, y \in S : (<<y, x>> \in R) <=> y < x
  BY DEF OpToRel
<1> HIDE DEF R
<1>4. PICK x \in S : \A y \in S : ~ (<<y, x>> \in R)
  BY <1>2, Zenon
<1>5. \A y \in S : ~(y < x)
  BY <1>3, <1>4, Zenon
<1>6. \A y \in S : x <= y
  BY <1>5
<1> QED BY <1>6, Zenon DEF First

-----------------------------------------------------------------------------
(* Type correctness.                                                       *)

(* The pairs of UI asks and their ids that TypeOK admits for a function    *)
(* from callers to the asks they await.                                    *)
UiTypeOK(uis, ids, awaited) ==
  /\ awaited \in [Callers -> {NoAsk} \cup Made]
  /\ uis \in [Callers -> {"none", "open"} \cup Settled]
  /\ \A k \in Callers : uis[k] = "none" <=> awaited[k] = NoAsk
  /\ \A n \in Asks : awaited[n] \in {NoAsk, n}
  /\ ids \in [Ids -> {NoCaller} \cup Callers]

LEMMA AskTypes ==
  /\ Asks \subseteq Nat /\ Asks \subseteq Callers /\ Reconnecters \subseteq Callers
  /\ NoAsk \notin Asks /\ NoCaller \notin Callers
  /\ \A r \in Reconnecters : r \notin Asks
BY MaxRequestsAssumption, ReconnectersAssumption
   DEF Asks, Callers, NoAsk, NoCaller

LEMMA MadeTypes ==
  ASSUME TypeOK
  PROVE  /\ Made = 1 .. Len(idOf) /\ Made \subseteq Asks
         /\ \A n \in Made : idOf[n] \in Ids /\ Owner[idOf[n]] \in Sessions
BY OwnerAssumption, MaxRequestsAssumption DEF TypeOK, Made, Asks

LEMMA DropTypes ==
  ASSUME TypeOK, NEW n \in Made, NEW v \in Verdicts, Drop(n, v)
  PROVE  /\ entries' \in [Ids -> {NoAsk} \cup Made]
         /\ timers' \subseteq Ids
         /\ history' \in Seq([ask : Made, verdict : Verdicts])
<1>1. entries' \in [Ids -> {NoAsk} \cup Made] /\ timers' \subseteq Ids
  BY DEF Drop, TypeOK
<1>2. Entry(n, v) \in [ask : Made, verdict : Verdicts]
  BY DEF Entry
<1>3. history' \in Seq([ask : Made, verdict : Verdicts])
  BY <1>2, AppendProperties DEF Drop, TypeOK
<1> QED BY <1>1, <1>3

LEMMA DismissedTypes ==
  ASSUME TypeOK, NEW uis, NEW ids, NEW awaited, UiTypeOK(uis, ids, awaited),
         NEW c \in Ids, NEW v \in Verdicts
  PROVE  UiTypeOK(Dismissed(uis, ids, c, v), ids, awaited)
<1>1. Dismissal(v) \in Settled /\ Dismissal(v) # "none"
  BY DEF Dismissal, Settled, UiReplies
<1>2. CASE ids[c] # NoCaller /\ uis[ids[c]] = "open"
  BY <1>1, <1>2 DEF Dismissed, UiTypeOK
<1>3. CASE ~(ids[c] # NoCaller /\ uis[ids[c]] = "open")
  BY <1>3 DEF Dismissed
<1> QED BY <1>2, <1>3

LEMMA CompleteTypes ==
  ASSUME TypeOK, NEW uis, NEW ids, NEW awaited, UiTypeOK(uis, ids, awaited),
         NEW n \in Made, NEW v \in Verdicts, Complete(uis, ids, n, v)
  PROVE  UiTypeOK(ui', uiIds', awaited)
<1>1. idOf[n] \in Ids
  BY MadeTypes
<1>2. UiTypeOK(ui', ids, awaited)
  BY <1>1, DismissedTypes DEF Complete
<1> QED BY <1>1, <1>2 DEF UiTypeOK, Complete

LEMMA ReplyTypes ==
  /\ \A reply : MapUiReply(reply) \in Verdicts
  /\ ClientVerdicts \subseteq Verdicts /\ "timeout" \in Verdicts
BY DEF MapUiReply, Verdicts, Allows, ClientVerdicts

LEMMA FoundTypes ==
  ASSUME TypeOK, NEW c
  PROVE  FirstInHistory(c) \in {"pending"} \cup Verdicts
<1>1. Found(c) \subseteq DOMAIN history /\ DOMAIN history \subseteq Nat
  BY DEF Found, TypeOK
<1>2. CASE Found(c) # {}
  <2>1. First(Found(c)) \in DOMAIN history
    BY <1>1, <1>2, Least
  <2>2. history \in Seq([ask : Made, verdict : Verdicts])
    BY DEF TypeOK
  <2>3. First(Found(c)) \in 1 .. Len(history)
    BY <2>1, <2>2, LenProperties
  <2>4. history[First(Found(c))] \in [ask : Made, verdict : Verdicts]
    BY <2>2, <2>3, ElementOfSeq
  <2> QED BY <1>2, <2>4 DEF FirstInHistory
<1>3. CASE Found(c) = {}
  BY <1>3 DEF FirstInHistory
<1> QED BY <1>2, <1>3

LEMMA ServeTypes ==
  ASSUME TypeOK, NEW r \in Reconnecters, NEW ahead, ahead \subseteq Made,
         NEW uis, NEW ids, UiTypeOK(uis, ids, [asking EXCEPT ![r] = NoAsk]),
         ServeNext(r, ahead, uis, ids)
  PROVE  UiTypeOK(ui', uiIds', asking')
<1>1. CASE ahead = {}
  BY <1>1 DEF ServeNext
<1>2. CASE ahead # {}
  <2>1. First(ahead) \in Made /\ idOf[First(ahead)] \in Ids
    BY <1>2, Least, MadeTypes, AskTypes
  <2>2. /\ asking' = [asking EXCEPT ![r] = First(ahead)]
        /\ ui' = [uis EXCEPT ![r] = "open"]
        /\ uiIds' = [ids EXCEPT ![idOf[First(ahead)]] = r]
    BY <1>2 DEF ServeNext
  <2>3. First(ahead) # NoAsk
    BY <2>1, AskTypes, MadeTypes
  <2> QED BY <2>1, <2>2, <2>3, AskTypes DEF UiTypeOK, TypeOK
<1> QED BY <1>1, <1>2

LEMMA AheadMade ==
  ASSUME TypeOK, NEW pending \in [Ids -> {NoAsk} \cup Made], NEW s, NEW n
  PROVE  Ahead(pending, s, n) \subseteq Made
BY AskTypes DEF Ahead, NoAsk

LEMMA FreedTypes ==
  ASSUME TypeOK, NEW k \in Callers, asking[k] # NoAsk
  PROVE  /\ UiTypeOK(Freed(k), Unmapped(k), [asking EXCEPT ![k] = NoAsk])
         /\ asking[k] \in Made
<1>1. asking[k] \in Made
  BY DEF TypeOK
<1>2. Freed(k) \in [Callers -> {"none", "open"} \cup Settled]
  BY DEF Freed, TypeOK
<1> QED BY <1>1, <1>2, AskTypes DEF UiTypeOK, Freed, Unmapped, TypeOK

(* The parts of TypeOK that a step leaves alone or only grows.             *)
LEMMA TypeFromParts ==
  ASSUME TypeOK, idOf' = idOf, timed' = timed, UiTypeOK(ui', uiIds', asking'),
         entries' \in [Ids -> {NoAsk} \cup Made], timers' \subseteq Ids,
         history' \in Seq([ask : Made, verdict : Verdicts]),
         live' \subseteq Sessions,
         returned' \in [Asks -> {"waiting", "pending"} \cup Verdicts],
         given' \subseteq [ask : Made, verdict : Verdicts]
  PROVE  TypeOK'
BY DEF TypeOK, UiTypeOK, Made

LEMMA UiNow == ASSUME TypeOK PROVE UiTypeOK(ui, uiIds, asking)
BY DEF TypeOK, UiTypeOK

LEMMA RequestTypes ==
  ASSUME TypeOK, NEW c \in Ids, NEW hasTimeout \in BOOLEAN, Request(c, hasTimeout)
  PROVE  TypeOK'
<1> DEFINE n == Len(idOf) + 1
<1>1. n \in Asks /\ idOf' = Append(idOf, c)
  BY DEF Request
<1>2. /\ idOf' \in Seq(Ids) /\ Len(idOf') = n /\ Len(idOf') <= MaxRequests
      /\ Made' = Made \cup {n} /\ n \in Made'
  BY <1>1, AppendProperties, MaxRequestsAssumption DEF TypeOK, Made, Asks
<1> HIDE DEF n
<1>3. timed' \subseteq Made' /\ timers' \subseteq Ids
  BY <1>2 DEF Request, TypeOK, n
<1>4. entries' \in [Ids -> {NoAsk} \cup Made']
  BY <1>2 DEF Request, TypeOK, n
<1>5. history' \in Seq([ask : Made', verdict : Verdicts])
  <2>1. [ask : Made, verdict : Verdicts] \subseteq [ask : Made', verdict : Verdicts]
    BY <1>2
  <2>2. history' = history /\ history \in Seq([ask : Made, verdict : Verdicts])
    BY DEF Request, TypeOK
  <2> HIDE DEF Verdicts
  <2>3. \A A, B : A \subseteq B => Seq(A) \subseteq Seq(B)
    OBVIOUS
  <2> QED BY <2>1, <2>2, <2>3
<1>6. live' \subseteq Sessions /\ given' \subseteq [ask : Made', verdict : Verdicts]
  BY <1>2 DEF Request, TypeOK
<1>7. CASE Owner[c] \in live
  <2>1. /\ asking' = [asking EXCEPT ![n] = n]
        /\ ui' = [ui EXCEPT ![n] = "open"]
        /\ uiIds' = [uiIds EXCEPT ![c] = n]
        /\ returned' = returned
    BY <1>7 DEF Request, n
  <2>2. n \in Callers /\ n # NoAsk
    BY <1>1, AskTypes DEF n
  <2> QED BY <1>1, <1>2, <1>3, <1>4, <1>5, <1>6, <2>1, <2>2 DEF TypeOK
<1>8. CASE Owner[c] \notin live
  <2>1. /\ returned' = [returned EXCEPT ![n] = FirstInHistory(c)]
        /\ UNCHANGED <<asking, ui, uiIds>>
    BY <1>8 DEF Request, n
  <2>2. returned' \in [Asks -> {"waiting", "pending"} \cup Verdicts]
    BY <2>1, FoundTypes DEF TypeOK
  <2> QED BY <1>2, <1>3, <1>4, <1>5, <1>6, <2>1, <2>2 DEF TypeOK
<1> QED BY <1>7, <1>8

(* Calls and timers that resolve a pending ask.                            *)
LEMMA ResolutionTypes ==
  ASSUME TypeOK, NEW c \in Ids, entries[c] # NoAsk, NEW v \in Verdicts,
         Drop(entries[c], v), Complete(ui, uiIds, entries[c], v),
         given' \subseteq given \cup {Entry(entries[c], v)},
         UNCHANGED <<idOf, timed, asking, live, returned>>
  PROVE  TypeOK'
<1>1. entries[c] \in Made
  BY DEF TypeOK
<1>2. UiTypeOK(ui', uiIds', asking')
  BY <1>1, UiNow, CompleteTypes
<1>3. given' \subseteq [ask : Made, verdict : Verdicts]
  BY <1>1 DEF Entry, TypeOK
<1> QED BY <1>1, <1>2, <1>3, DropTypes, TypeFromParts DEF TypeOK

LEMMA SessionTypes ==
  ASSUME TypeOK, SessionStep \/ \E k \in Callers : UiTimeout(k)
  PROVE  TypeOK'
<1>1. ASSUME NEW k \in Callers, NEW reply \in UiReplies, Answer(k, reply) PROVE TypeOK'
  <2>1. asking[k] \in Made
    BY <1>1 DEF Answer, TypeOK
  <2>2. Entry(asking[k], MapUiReply(reply)) \in [ask : Made, verdict : Verdicts]
    BY <2>1, ReplyTypes DEF Entry
  <2>3. UiTypeOK(ui', uiIds', asking')
    BY <1>1, <2>1 DEF Answer, TypeOK, UiTypeOK, Settled, UiReplies
  <2> QED BY <1>1, <2>2, <2>3, TypeFromParts DEF Answer, TypeOK
<1>2. ASSUME NEW s \in Sessions, CloseSession(s) PROVE TypeOK'
  <2>1. UiTypeOK(ui', uiIds', asking')
    BY <1>2 DEF CloseSession, TypeOK, UiTypeOK, Settled
  <2> QED BY <1>2, <2>1, TypeFromParts DEF CloseSession, TypeOK
<1>3. ASSUME NEW s \in Sessions, ResumeSession(s) PROVE TypeOK'
  BY <1>3, UiNow, TypeFromParts DEF ResumeSession, TypeOK
<1>4. ASSUME NEW k \in Callers, UiTimeout(k) PROVE TypeOK'
  <2>1. UiTypeOK(ui', uiIds', asking')
    BY <1>4 DEF UiTimeout, TypeOK, UiTypeOK, Settled
  <2> QED BY <1>4, <2>1, TypeFromParts DEF UiTimeout, TypeOK
<1> QED BY <1>1, <1>2, <1>3, <1>4 DEF SessionStep

LEMMA ContinuationTypes ==
  ASSUME TypeOK, Continuation
  PROVE  TypeOK'
<1>1. ASSUME NEW k \in Callers, ui[k] \in Settled
      PROVE  asking[k] # NoAsk
  BY <1>1 DEF TypeOK, Settled, UiReplies
<1>2. UiReplies \subseteq Settled /\ "rejected" \in Settled
  BY DEF Settled
<1>3. ASSUME NEW n \in Asks, RequestDecided(n) PROVE TypeOK'
  <2> DEFINE v == MapUiReply(ui[n])
  <2>1. asking[n] = n /\ asking[n] # NoAsk /\ n \in Callers
    BY <1>1, <1>2, <1>3, AskTypes DEF RequestDecided, TypeOK
  <2>2. /\ UiTypeOK(Freed(n), Unmapped(n), [asking EXCEPT ![n] = NoAsk]) /\ n \in Made
    BY <2>1, FreedTypes
  <2>3. v \in Verdicts
    BY ReplyTypes
  <2>4. Drop(n, v) /\ Complete(Freed(n), Unmapped(n), n, v)
    BY <1>3 DEF RequestDecided
  <2> HIDE DEF v
  <2>5. UiTypeOK(ui', uiIds', [asking EXCEPT ![n] = NoAsk])
    BY <2>2, <2>3, <2>4, CompleteTypes
  <2>6. UiTypeOK(ui', uiIds', asking')
    BY <1>3, <2>5 DEF RequestDecided
  <2>7. returned' \in [Asks -> {"waiting", "pending"} \cup Verdicts]
    BY <1>3, <2>3 DEF RequestDecided, TypeOK, v
  <2>8. UNCHANGED <<idOf, timed, live, given>>
    BY <1>3 DEF RequestDecided
  <2> QED BY <2>2, <2>3, <2>4, <2>6, <2>7, <2>8, DropTypes, TypeFromParts DEF TypeOK
<1>4. ASSUME NEW n \in Asks, RequestOvertaken(n) PROVE TypeOK'
  <2>1. asking[n] # NoAsk /\ n \in Callers
    BY <1>1, <1>4, AskTypes DEF RequestOvertaken
  <2>2. UiTypeOK(ui', uiIds', asking')
    BY <1>4, <2>1, FreedTypes DEF RequestOvertaken
  <2>3. returned' \in [Asks -> {"waiting", "pending"} \cup Verdicts]
    BY <1>4, FoundTypes DEF RequestOvertaken, TypeOK
  <2> QED BY <1>4, <2>2, <2>3, TypeFromParts DEF RequestOvertaken, TypeOK
<1>5. ASSUME NEW r \in Reconnecters, ReconnectDecided(r) PROVE TypeOK'
  <2> DEFINE n == asking[r]
             v == MapUiReply(ui[r])
  <2>1. r \in Callers /\ asking[r] # NoAsk
    BY <1>1, <1>2, <1>5, AskTypes DEF ReconnectDecided
  <2>2. /\ UiTypeOK(Freed(r), Unmapped(r), [asking EXCEPT ![r] = NoAsk])
        /\ n \in Made /\ idOf[n] \in Ids
    BY <2>1, FreedTypes, MadeTypes
  <2>3. v \in Verdicts
    BY ReplyTypes
  <2>4. Drop(n, v)
    BY <1>5 DEF ReconnectDecided
  <2>5. /\ ServeNext(r, Remaining(entries', n),
                     Dismissed(Freed(r), Unmapped(r), idOf[n], v), Unmapped(r))
        /\ UNCHANGED <<idOf, timed, live, returned, given>>
    BY <1>5 DEF ReconnectDecided
  <2> HIDE DEF n, v
  <2>6. UiTypeOK(Dismissed(Freed(r), Unmapped(r), idOf[n], v), Unmapped(r),
                 [asking EXCEPT ![r] = NoAsk])
    BY <2>2, <2>3, DismissedTypes
  <2>7. entries' \in [Ids -> {NoAsk} \cup Made]
    BY <2>2, <2>3, <2>4, DropTypes
  <2>8. Remaining(entries', n) \subseteq Made
    BY <2>7, AheadMade DEF Remaining
  <2>9. UiTypeOK(ui', uiIds', asking')
    BY <2>5, <2>6, <2>8, ServeTypes
  <2> QED BY <2>2, <2>3, <2>4, <2>5, <2>9, DropTypes, TypeFromParts DEF TypeOK
<1>6. ASSUME NEW r \in Reconnecters, ReconnectUndecided(r) PROVE TypeOK'
  <2>1. r \in Callers /\ asking[r] # NoAsk
    BY <1>1, <1>2, <1>6, AskTypes DEF ReconnectUndecided
  <2>2. Remaining(entries, asking[r]) \subseteq Made
    BY AheadMade DEF Remaining, TypeOK
  <2>3. UiTypeOK(ui', uiIds', asking')
    BY <1>6, <2>1, <2>2, FreedTypes, ServeTypes DEF ReconnectUndecided
  <2> QED BY <1>6, <2>3, TypeFromParts DEF ReconnectUndecided, TypeOK
<1> QED BY <1>3, <1>4, <1>5, <1>6 DEF Continuation

LEMMA CallTypes ==
  ASSUME TypeOK, Calls \/ \E c \in Ids : Timeout(c)
  PROVE  TypeOK'
<1>1. ASSUME NEW s \in Sessions, NEW c \in Ids, NEW v \in ClientVerdicts, Resolve(s, c, v)
      PROVE  TypeOK'
  BY <1>1, ReplyTypes, ResolutionTypes DEF Resolve
<1>2. ASSUME NEW c \in Ids, Timeout(c) PROVE TypeOK'
  BY <1>2, ReplyTypes, ResolutionTypes DEF Timeout
<1>3. ASSUME NEW r \in Reconnecters, NEW s \in Sessions, Reconnect(r, s) PROVE TypeOK'
  <2>1. Ahead(entries, s, NoAsk) \subseteq Made
    BY AheadMade DEF TypeOK
  <2>2. UiTypeOK(ui, uiIds, [asking EXCEPT ![r] = NoAsk])
    BY <1>3, UiNow DEF Reconnect, UiTypeOK
  <2>3. UiTypeOK(ui', uiIds', asking')
    BY <1>3, <2>1, <2>2, ServeTypes DEF Reconnect
  <2> QED BY <1>3, <2>3, TypeFromParts DEF Reconnect, TypeOK
<1> QED BY <1>1, <1>2, <1>3, RequestTypes DEF Calls

(* Every variable keeps its type, however calls, timers, closing sessions  *)
(* and continuations interleave.                                           *)
THEOREM TypeCorrect == Spec => []TypeOK
<1>1. Init => TypeOK
  <2> SUFFICES ASSUME Init PROVE TypeOK
    OBVIOUS
  <2>1. /\ idOf = <<>> /\ idOf \in Seq(Ids) /\ Len(idOf) = 0
        /\ history = <<>> /\ history \in Seq([ask : Made, verdict : Verdicts])
    BY EmptySeq DEF Init
  <2> QED BY <2>1, AskTypes, MaxRequestsAssumption DEF Init, TypeOK
<1>2. TypeOK /\ [Next]_vars => TypeOK'
  <2>1. ASSUME TypeOK, UNCHANGED vars PROVE TypeOK'
    BY <2>1, UiNow, TypeFromParts DEF vars, TypeOK
  <2> QED BY <2>1, CallTypes, SessionTypes, ContinuationTypes DEF Next, Timers
<1> QED BY <1>1, <1>2, PTL DEF Spec

-----------------------------------------------------------------------------
(* What resolving an ask does to the pending ones and to the history.      *)

EntriesAgree == \A c \in Ids : entries[c] # NoAsk => idOf[entries[c]] = c

(* No correlation id was sent twice.                                       *)
IdsUnique == \A m, n \in Made : idOf[m] = idOf[n] => m = n

LEMMA FirstGrows ==
  ASSUME NEW S, NEW l \in Nat, S \subseteq 1 .. l, S # {}
  PROVE  First(S \cup {l + 1}) = First(S)
<1>0. S \subseteq Nat
  OBVIOUS
<1>1. First(S) \in S /\ \A i \in S : First(S) <= i
  BY <1>0, Least
<1> DEFINE T == S \cup {l + 1}
<1>2. T \subseteq Nat /\ T # {} /\ First(S) \in T /\ First(S) \in Nat /\ First(S) <= l
  <2>1. \A i \in S : i \in Nat /\ i <= l
    OBVIOUS
  <2>2. PICK f \in S : f = First(S)
    BY <1>1, Zenon
  <2>3. f \in Nat /\ f <= l
    BY <2>1, <2>2
  <2>4. T \subseteq Nat
    BY <1>0
  <2> QED BY <2>2, <2>3, <2>4, Zenon
<1>3. First(T) \in T /\ \A i \in T : First(T) <= i
  <2> HIDE DEF T
  <2> QED BY <1>2, Least
<1>4. First(T) <= First(S) /\ First(T) \in Nat
  BY <1>2, <1>3
<1>5. First(T) \in S
  BY <1>2, <1>3, <1>4
<1>6. First(S) <= First(T)
  BY <1>1, <1>5
<1>7. First(T) = First(S)
  BY <1>2, <1>4, <1>6
<1> QED BY <1>7

LEMMA Appended ==
  ASSUME TypeOK, NEW n \in Made, NEW v \in Verdicts, Drop(n, v)
  PROVE  /\ Len(history) \in Nat /\ DOMAIN history = 1 .. Len(history)
         /\ DOMAIN history' = DOMAIN history \cup {Len(history) + 1}
         /\ \A i \in DOMAIN history : history'[i] = history[i]
         /\ history'[Len(history) + 1] = Entry(n, v)
         /\ Entry(n, v).ask = n /\ Entry(n, v).verdict = v
<1>1. history \in Seq([ask : Made, verdict : Verdicts])
  BY DEF TypeOK
<1>2. history' = Append(history, Entry(n, v))
  BY DEF Drop
<1>3. Entry(n, v) \in [ask : Made, verdict : Verdicts]
  BY DEF Entry
<1>4. Entry(n, v).ask = n /\ Entry(n, v).verdict = v
  BY DEF Entry
<1> QED BY <1>1, <1>2, <1>3, <1>4, AppendProperties, LenProperties

LEMMA DropResolves ==
  ASSUME TypeOK, EntriesAgree, PendingOrResolved, UNCHANGED idOf,
         NEW n \in Made, NEW v \in Verdicts, Drop(n, v),
         n \in Pending \/ IdsUnique
  PROVE  /\ EntriesAgree' /\ PendingOrResolved'
         /\ Resolved' = Resolved \cup {n}
<1>1. Resolved' = Resolved \cup {n}
  BY Appended DEF Resolved
<1>2. idOf[n] \in Ids /\ entries' = [entries EXCEPT ![idOf[n]] = NoAsk]
  BY MadeTypes DEF Drop
<1>3. EntriesAgree'
  BY <1>2 DEF EntriesAgree, TypeOK
<1>4. ASSUME NEW m \in Made PROVE (m \in Pending)' <=> m \notin Resolved'
  <2>1. m # NoAsk /\ idOf[m] \in Ids /\ (m \in Pending)' <=> entries'[idOf[m]] = m
    BY AskTypes, MadeTypes DEF Pending, Made
  <2>2. CASE idOf[m] = idOf[n]
    BY <1>1, <1>2, <2>1, <2>2 DEF Pending, PendingOrResolved, IdsUnique, TypeOK
  <2>3. CASE idOf[m] # idOf[n]
    BY <1>1, <1>2, <2>1, <2>3 DEF Pending, PendingOrResolved, TypeOK
  <2> QED BY <2>2, <2>3
<1>5. PendingOrResolved'
  BY <1>4 DEF PendingOrResolved, Made
<1> QED BY <1>1, <1>3, <1>5

(* A new ask is pending; the others are as before.                         *)
LEMMA RequestMakes ==
  ASSUME TypeOK, NEW c \in Ids, NEW hasTimeout \in BOOLEAN, Request(c, hasTimeout)
  PROVE  /\ Len(idOf) + 1 \in Asks /\ Len(idOf) + 1 \notin Made
         /\ Made' = Made \cup {Len(idOf) + 1}
         /\ \A m \in Made : idOf'[m] = idOf[m]
         /\ idOf'[Len(idOf) + 1] = c
<1>1. idOf \in Seq(Ids) /\ idOf' = Append(idOf, c) /\ Len(idOf) + 1 \in Asks
  BY DEF TypeOK, Request
<1>2. Made = 1 .. Len(idOf) /\ Len(idOf) \in Nat
  BY <1>1, LenProperties DEF Made
<1> QED BY <1>1, <1>2, AppendProperties DEF Made

LEMMA ResolvedMade == ASSUME TypeOK PROVE Resolved \subseteq Made
<1>1. history \in Seq([ask : Made, verdict : Verdicts])
  BY DEF TypeOK
<1>2. ASSUME NEW i \in DOMAIN history PROVE history[i].ask \in Made
  <2>1. history[i] \in [ask : Made, verdict : Verdicts]
    BY <1>1, LenProperties, ElementOfSeq
  <2> QED BY <2>1
<1> QED BY <1>2 DEF Resolved

LEMMA RequestPends ==
  ASSUME TypeOK, EntriesAgree, PendingOrResolved,
         NEW c \in Ids, NEW hasTimeout \in BOOLEAN, Request(c, hasTimeout)
  PROVE  EntriesAgree' /\ PendingOrResolved' /\ Resolved' = Resolved
<1>1. PICK n \in Asks :
        /\ n = Len(idOf) + 1 /\ n \notin Made /\ Made' = Made \cup {n}
        /\ \A m \in Made : idOf'[m] = idOf[m]
        /\ idOf'[n] = c
  BY RequestMakes
<1>2. /\ entries[c] = NoAsk /\ entries' = [entries EXCEPT ![c] = n]
      /\ history' = history
  BY <1>1 DEF Request, MayRequest
<1>3. Resolved' = Resolved /\ Resolved \subseteq Made
  BY <1>2, ResolvedMade DEF Resolved
<1>4. entries' \in [Ids -> {NoAsk} \cup Made'] /\ entries'[c] = n
  BY <1>1, <1>2 DEF TypeOK
<1>5. EntriesAgree'
  BY <1>1, <1>2 DEF EntriesAgree, TypeOK
<1>6. ASSUME NEW m \in Made PROVE m \in Pending' <=> m \notin Resolved'
  <2>1. m # NoAsk /\ m # n /\ idOf[m] \in Ids /\ idOf'[m] = idOf[m] /\ m \in Made'
    BY <1>1, AskTypes, MadeTypes
  <2>2. m \in Pending' <=> m \in Pending
    BY <1>2, <2>1 DEF Pending, TypeOK
  <2> QED BY <1>3, <2>2 DEF PendingOrResolved
<1>7. n \in Pending' /\ n \notin Resolved'
  BY <1>1, <1>3, <1>4 DEF Pending
<1>8. PendingOrResolved'
  BY <1>1, <1>6, <1>7 DEF PendingOrResolved
<1> QED BY <1>3, <1>5, <1>8

-----------------------------------------------------------------------------
(* Ids that are never sent twice: no ask is allowed unless it was, and the  *)
(* first verdict stands, also when reconnect() asks again and drops late.   *)

(* A mapped UI ask is for the id it is mapped to.                          *)
MapsAgree(ids, awaited) ==
  \A c \in Ids : ids[c] # NoCaller =>
     awaited[ids[c]] \in Made /\ idOf[awaited[ids[c]]] = c

(* A UI ask settled as an allow only if its ask was allowed: by its user,  *)
(* or by the client whose answer dismissed it.                             *)
RepliesConsent(uis, awaited) ==
  \A k \in Callers :
     uis[k] \in UiReplies /\ MapUiReply(uis[k]) \in Allows => Allowed(awaited[k])

RecordConsents ==
  \A i \in DOMAIN history : history[i].verdict \in Allows => Allowed(history[i].ask)

ConsentInv ==
  /\ IdsUnique /\ EntriesAgree /\ PendingOrResolved
  /\ MapsAgree(uiIds, asking)
  /\ RepliesConsent(ui, asking)
  /\ RecordConsents
  /\ FirstVerdictStands
  /\ \A n \in Asks \ Made : returned[n] = "waiting"

LEMMA AllowedStays ==
  ASSUME given \subseteq given'
  PROVE  \A n : Allowed(n) => Allowed(n)'
BY DEF Allowed, Entry

LEMMA DropConsents ==
  ASSUME TypeOK, RecordConsents, given \subseteq given',
         NEW n \in Made, NEW v \in Verdicts, Drop(n, v),
         v \in Allows => Allowed(n)'
  PROVE  RecordConsents'
<1>1. ASSUME NEW i \in DOMAIN history', history'[i].verdict \in Allows
      PROVE  \E w \in Allows : Entry(history'[i].ask, w) \in given'
  <2>1. CASE i \in DOMAIN history
    <3>1. history'[i] = history[i]
      BY <2>1, Appended
    <3>2. Allowed(history[i].ask)
      BY <1>1, <2>1, <3>1 DEF RecordConsents
    <3> QED BY <3>1, <3>2 DEF Allowed
  <2>2. CASE i \notin DOMAIN history
    <3>1. history'[i].ask = n /\ history'[i].verdict = v
      BY <1>1, <2>2, Appended
    <3> QED BY <1>1, <3>1 DEF Allowed
  <2> QED BY <2>1, <2>2
<1> QED BY <1>1 DEF RecordConsents, Allowed, Entry

(* A drop changes the first verdict of no ask but the one it resolves.     *)
LEMMA DropKeepsFirst ==
  ASSUME TypeOK, NEW n \in Made, NEW v \in Verdicts, Drop(n, v)
  PROVE  /\ \A m : Own(m) # {} =>
               Own(m)' # {} /\ history'[First(Own(m)')] = history[First(Own(m))]
         /\ Own(n) = {} => Own(n)' # {} /\ history'[First(Own(n)')].verdict = v
<1> DEFINE l == Len(history)
<1>1. /\ l \in Nat /\ DOMAIN history = 1 .. l
      /\ DOMAIN history' = DOMAIN history \cup {l + 1}
      /\ \A i \in DOMAIN history : history'[i] = history[i]
      /\ history'[l + 1] = Entry(n, v)
      /\ Entry(n, v).ask = n /\ Entry(n, v).verdict = v
  BY Appended
<1> HIDE DEF l
<1>2. ASSUME NEW m PROVE Own(m)' = IF m = n THEN Own(m) \cup {l + 1} ELSE Own(m)
  BY <1>1 DEF Own
<1>3. ASSUME NEW m PROVE Own(m) \subseteq 1 .. l
  BY <1>1 DEF Own
<1>4. ASSUME NEW m, Own(m) # {}
      PROVE  Own(m)' # {} /\ history'[First(Own(m)')] = history[First(Own(m))]
  <2>1. First(Own(m)) \in Own(m)
    <3>1. Own(m) \subseteq Nat
      BY <1>3
    <3> QED BY <1>4, <3>1, Least
  <2>2. First(Own(m)') = First(Own(m))
    <3>1. First(Own(m) \cup {l + 1}) = First(Own(m))
      BY <1>1, <1>3, <1>4, FirstGrows
    <3> QED BY <1>2, <3>1
  <2>3. First(Own(m)) \in DOMAIN history
    BY <2>1 DEF Own
  <2> QED BY <1>1, <1>2, <1>4, <2>2, <2>3
<1>5. ASSUME Own(n) = {}
      PROVE  Own(n)' # {} /\ history'[First(Own(n)')].verdict = v
  <2>1. Own(n)' = {l + 1}
    BY <1>2, <1>5
  <2>2. First({l + 1}) = l + 1
    <3>1. {l + 1} \subseteq Nat /\ {l + 1} # {}
      BY <1>1
    <3>2. First({l + 1}) \in {l + 1}
      BY <3>1, Least
    <3> QED BY <3>2
  <2> QED BY <1>1, <2>1, <2>2
<1> QED BY <1>4, <1>5

LEMMA VerdictTypes ==
  /\ Dismissal("answer") = "value" /\ MapUiReply("value") = "answer"
  /\ \A v : v # "answer" => MapUiReply(Dismissal(v)) \notin Allows
  /\ "answer" \in Allows /\ "timeout" \notin Allows
  /\ "rejected" \notin UiReplies /\ "open" \notin UiReplies /\ "none" \notin UiReplies
  /\ "pending" \notin Verdicts /\ "waiting" \notin Verdicts /\ Allows \subseteq Verdicts
BY DEF Dismissal, MapUiReply, Allows, Verdicts, UiReplies

(* complete() settles the UI ask of the very ask that is resolved.         *)
MappedAsks(n) ==
  LET k == uiIds[idOf[n]] IN k # NoCaller /\ ui[k] = "open" => asking[k] = n

LEMMA CompleteConsents ==
  ASSUME TypeOK, MapsAgree(uiIds, asking), RepliesConsent(ui, asking),
         given \subseteq given', UNCHANGED <<idOf, asking>>,
         NEW n \in Made, MappedAsks(n), NEW v \in Verdicts, v \in Allows => Allowed(n)',
         Complete(ui, uiIds, n, v)
  PROVE  MapsAgree(uiIds, asking)' /\ RepliesConsent(ui, asking)'
<1>1. idOf[n] \in Ids /\ uiIds' = [uiIds EXCEPT ![idOf[n]] = NoCaller]
      /\ ui' = Dismissed(ui, uiIds, idOf[n], v)
  BY MadeTypes DEF Complete
<1>2. MapsAgree(uiIds, asking)'
  BY <1>1 DEF MapsAgree, TypeOK, Made
<1>3. ASSUME NEW k \in Callers, ui'[k] \in UiReplies, MapUiReply(ui'[k]) \in Allows
      PROVE  Allowed(asking[k])'
  <2>1. CASE ui'[k] = ui[k]
    BY <1>3, <2>1, AllowedStays DEF RepliesConsent
  <2>2. CASE ui'[k] # ui[k]
    <3>1. k = uiIds[idOf[n]] /\ k # NoCaller /\ ui[k] = "open" /\ ui'[k] = Dismissal(v)
      BY <1>1, <2>2, AskTypes DEF Dismissed, TypeOK
    <3>2. asking[k] = n
      BY <3>1 DEF MappedAsks
    <3>3. v \in Allows
      BY <1>3, <3>1, VerdictTypes
    <3> QED BY <3>2, <3>3
  <2> QED BY <2>1, <2>2
<1>4. RepliesConsent(ui, asking)'
  BY <1>3 DEF RepliesConsent
<1> QED BY <1>2, <1>4

(* A continuation's finally: the caller's UI ask is gone, and no other's   *)
(* mapping with it.                                                        *)
LEMMA FreedConsents ==
  ASSUME TypeOK, MapsAgree(uiIds, asking), RepliesConsent(ui, asking),
         NEW k \in Callers, asking[k] # NoAsk
  PROVE  /\ MapsAgree(Unmapped(k), [asking EXCEPT ![k] = NoAsk])
         /\ RepliesConsent(Freed(k), [asking EXCEPT ![k] = NoAsk])
         /\ Unmapped(k)[idOf[asking[k]]] = NoCaller
<1>1. asking[k] \in Made /\ idOf[asking[k]] \in Ids
  BY MadeTypes DEF TypeOK
<1>2. MapsAgree(Unmapped(k), [asking EXCEPT ![k] = NoAsk])
  BY <1>1, AskTypes DEF MapsAgree, Unmapped, TypeOK
<1>3. RepliesConsent(Freed(k), [asking EXCEPT ![k] = NoAsk])
  BY <1>1, VerdictTypes DEF RepliesConsent, Freed, TypeOK
<1> QED BY <1>1, <1>2, <1>3 DEF Unmapped, TypeOK

LEMMA ServeConsents ==
  ASSUME TypeOK, NEW r \in Reconnecters, NEW ahead, ahead \subseteq Made, NEW uis, NEW ids,
         UiTypeOK(uis, ids, [asking EXCEPT ![r] = NoAsk]),
         MapsAgree(ids, [asking EXCEPT ![r] = NoAsk]),
         RepliesConsent(uis, [asking EXCEPT ![r] = NoAsk]),
         ServeNext(r, ahead, uis, ids), UNCHANGED <<idOf, given>>
  PROVE  MapsAgree(uiIds, asking)' /\ RepliesConsent(ui, asking)'
<1>1. CASE ahead = {}
  <2>1. uiIds' = ids /\ ui' = uis /\ asking' = [asking EXCEPT ![r] = NoAsk]
    BY <1>1 DEF ServeNext
  <2>2. Made' = Made /\ \A n : Allowed(n)' = Allowed(n)
    BY DEF Made, Allowed, Entry
  <2> QED BY <2>1, <2>2 DEF MapsAgree, RepliesConsent
<1>2. CASE ahead # {}
  <2>1. PICK n \in Made : n = First(ahead) /\ idOf[n] \in Ids /\ n # NoAsk
    BY <1>2, Least, MadeTypes, AskTypes
  <2>2. /\ asking' = [asking EXCEPT ![r] = n]
        /\ ui' = [uis EXCEPT ![r] = "open"]
        /\ uiIds' = [ids EXCEPT ![idOf[n]] = r]
    BY <1>2, <2>1 DEF ServeNext
  <2>3. r \in Callers
    BY AskTypes
  <2>4. \A c \in Ids : ids[c] # NoCaller => ids[c] \in Callers
    BY DEF UiTypeOK
  <2>5. \A c \in Ids : ids[c] # NoCaller => ids[c] # r
    BY <2>3, <2>4, AskTypes, MadeTypes DEF MapsAgree, TypeOK
  <2>6. MapsAgree(uiIds, asking)'
    BY <2>1, <2>2, <2>3, <2>4, <2>5 DEF MapsAgree, TypeOK, UiTypeOK, Made
  <2>7. RepliesConsent(ui, asking)'
    BY <2>2, <2>3, VerdictTypes DEF RepliesConsent, TypeOK, UiTypeOK, Allowed, Entry
  <2> QED BY <2>6, <2>7
<1> QED BY <1>1, <1>2

LEMMA ResolutionConsents ==
  ASSUME TypeOK, ConsentInv, NEW c \in Ids, entries[c] # NoAsk, NEW v \in Verdicts,
         Drop(entries[c], v), Complete(ui, uiIds, entries[c], v),
         given \subseteq given', v \in Allows => Entry(entries[c], v) \in given',
         UNCHANGED <<idOf, timed, asking, live, returned>>
  PROVE  ConsentInv'
<1>1. PICK n \in Made : n = entries[c]
  BY DEF TypeOK
<1>2. v \in Allows => Allowed(n)'
  BY <1>1 DEF Allowed, Entry
<1>3. IdsUnique' /\ EntriesAgree' /\ PendingOrResolved'
  BY <1>1, DropResolves DEF ConsentInv, IdsUnique, Made
<1>4. MapsAgree(uiIds, asking)' /\ RepliesConsent(ui, asking)'
  <2>1. MappedAsks(n)
    BY MadeTypes DEF MappedAsks, MapsAgree, IdsUnique, ConsentInv
  <2> QED BY <1>1, <1>2, <2>1, CompleteConsents DEF ConsentInv
<1>5. RecordConsents'
  BY <1>1, <1>2, DropConsents DEF ConsentInv
<1>6. FirstVerdictStands'
  BY <1>1, DropKeepsFirst DEF ConsentInv, FirstVerdictStands, Made
<1>7. Made' = Made
  BY DEF Made
<1> QED BY <1>3, <1>4, <1>5, <1>6, <1>7 DEF ConsentInv

(* A new ask is mapped to its own UI ask, and no reply is invented.        *)
LEMMA RequestReplies ==
  ASSUME TypeOK, MapsAgree(uiIds, asking), RepliesConsent(ui, asking),
         NEW c \in Ids, NEW hasTimeout \in BOOLEAN, Request(c, hasTimeout)
  PROVE  MapsAgree(uiIds, asking)' /\ RepliesConsent(ui, asking)'
<1>1. PICK n \in Asks :
        /\ n = Len(idOf) + 1 /\ n \notin Made /\ Made' = Made \cup {n}
        /\ \A m \in Made : idOf'[m] = idOf[m]
        /\ idOf'[n] = c
  BY RequestMakes
<1>2. given' = given
  BY DEF Request
<1>3. asking[n] = NoAsk /\ n \in Callers /\ n # NoAsk
  BY <1>1, AskTypes DEF TypeOK
<1>4. /\ asking' = asking \/ asking' = [asking EXCEPT ![n] = n]
      /\ ui' = ui \/ ui' = [ui EXCEPT ![n] = "open"]
      /\ \/ asking' = asking /\ uiIds' = uiIds
         \/ asking' = [asking EXCEPT ![n] = n] /\ uiIds' = [uiIds EXCEPT ![c] = n]
  BY <1>1 DEF Request
<1>5. MapsAgree(uiIds, asking)'
  <2>1. ASSUME NEW d \in Ids, uiIds'[d] # NoCaller
        PROVE  asking'[uiIds'[d]] \in Made' /\ idOf'[asking'[uiIds'[d]]] = d
    <3>1. CASE uiIds'[d] = uiIds[d]
      <4>1. asking[uiIds[d]] \in Made /\ idOf[asking[uiIds[d]]] = d /\ uiIds[d] \in Callers
        BY <2>1, <3>1 DEF MapsAgree, TypeOK
      <4>2. uiIds[d] # n
        BY <1>3, <4>1, MadeTypes, AskTypes
      <4>3. asking'[uiIds[d]] = asking[uiIds[d]]
        BY <1>4, <4>1, <4>2 DEF TypeOK
      <4> QED BY <1>1, <3>1, <4>1, <4>3
    <3>2. CASE uiIds'[d] # uiIds[d]
      <4>1. asking' = [asking EXCEPT ![n] = n] /\ uiIds' = [uiIds EXCEPT ![c] = n]
        BY <1>4, <3>2
      <4>2. d = c /\ uiIds'[d] = n /\ asking'[n] = n
        BY <1>3, <3>2, <4>1 DEF TypeOK
      <4> QED BY <1>1, <4>2
    <3> QED BY <3>1, <3>2
  <2> QED BY <2>1 DEF MapsAgree
<1>6. RepliesConsent(ui, asking)'
  <2>1. \A k \in Callers : ui'[k] \in UiReplies => ui'[k] = ui[k] /\ asking[k] # NoAsk
    BY <1>3, <1>4, VerdictTypes DEF TypeOK
  <2>2. \A k \in Callers : asking[k] # NoAsk => asking'[k] = asking[k]
    BY <1>3, <1>4 DEF TypeOK
  <2> QED BY <1>2, <2>1, <2>2 DEF RepliesConsent, Allowed, Entry
<1> QED BY <1>5, <1>6

LEMMA RequestConsents ==
  ASSUME TypeOK, ConsentInv, Reusable = {},
         NEW c \in Ids, NEW hasTimeout \in BOOLEAN, Request(c, hasTimeout)
  PROVE  ConsentInv'
<1>1. PICK n \in Asks :
        /\ n = Len(idOf) + 1 /\ n \notin Made /\ Made' = Made \cup {n}
        /\ \A m \in Made : idOf'[m] = idOf[m]
        /\ idOf'[n] = c
  BY RequestMakes
<1>2. \A m \in Made : idOf[m] # c
  BY DEF Request, MayRequest, Made
<1>3. history' = history /\ given' = given
  BY DEF Request
<1>4. EntriesAgree' /\ PendingOrResolved' /\ Resolved' = Resolved /\ Resolved \subseteq Made
  BY RequestPends, ResolvedMade DEF ConsentInv
<1>5. IdsUnique'
  BY <1>1, <1>2 DEF IdsUnique, ConsentInv
<1>6. RecordConsents' /\ \A m : Own(m)' = Own(m)
  BY <1>3 DEF ConsentInv, RecordConsents, Allowed, Entry, Own
<1>7. Found(c) = {}
  <2>1. \A i \in DOMAIN history : history[i].ask \in Made
    BY <1>4 DEF Resolved
  <2> QED BY <1>2, <2>1 DEF Found
<1>8. returned' = returned \/ returned' = [returned EXCEPT ![n] = "pending"]
  BY <1>1, <1>7 DEF Request, FirstInHistory
<1>10. \A m \in Made : returned'[m] = returned[m]
  BY <1>1, <1>8, MadeTypes DEF TypeOK
<1>11. returned'[n] \in Verdicts => returned[n] \in Verdicts
  BY <1>8, VerdictTypes DEF TypeOK
<1>13. MapsAgree(uiIds, asking)' /\ RepliesConsent(ui, asking)'
  BY RequestReplies DEF ConsentInv
<1>15. returned[n] \notin Verdicts
  BY <1>1, VerdictTypes DEF ConsentInv
<1>16. FirstVerdictStands'
  BY <1>1, <1>3, <1>6, <1>10, <1>11, <1>15 DEF ConsentInv, FirstVerdictStands
<1>17. \A m \in Asks \ Made' : returned'[m] = "waiting"
  BY <1>1, <1>8 DEF ConsentInv, TypeOK
<1> QED BY <1>4, <1>5, <1>6, <1>13, <1>16, <1>17 DEF ConsentInv

(* Only the user's own reply can make a UI ask an allow.                   *)
LEMMA SessionReplies ==
  ASSUME TypeOK, MapsAgree(uiIds, asking), RepliesConsent(ui, asking),
         SessionStep \/ \E k \in Callers : UiTimeout(k)
  PROVE  MapsAgree(uiIds, asking)' /\ RepliesConsent(ui, asking)'
<1>1. /\ UNCHANGED <<idOf, asking>>
      /\ given \subseteq given'
  BY DEF SessionStep, Answer, CloseSession, ResumeSession, UiTimeout
<1>2. \A c \in Ids : uiIds'[c] = uiIds[c] \/ uiIds'[c] = NoCaller
  BY DEF SessionStep, Answer, CloseSession, ResumeSession, UiTimeout, TypeOK
<1>3. MapsAgree(uiIds, asking)'
  BY <1>1, <1>2 DEF MapsAgree, Made
<1>4. \A k \in Callers : ui'[k] \in UiReplies /\ ui'[k] # ui[k] =>
        Entry(asking[k], MapUiReply(ui'[k])) \in given'
  BY VerdictTypes DEF SessionStep, Answer, CloseSession, ResumeSession, UiTimeout, TypeOK
<1>5. RepliesConsent(ui, asking)'
  <2>1. ASSUME NEW k \in Callers, ui'[k] \in UiReplies, MapUiReply(ui'[k]) \in Allows
        PROVE  Allowed(asking[k])'
    <3>1. CASE ui'[k] = ui[k]
      BY <1>1, <2>1, <3>1, AllowedStays DEF RepliesConsent
    <3>2. CASE ui'[k] # ui[k]
      BY <1>1, <1>4, <2>1, <3>2 DEF Allowed, Entry
    <3> QED BY <3>1, <3>2
  <2> QED BY <1>1, <2>1 DEF RepliesConsent
<1> QED BY <1>3, <1>5

LEMMA SessionConsents ==
  ASSUME TypeOK, ConsentInv, SessionStep \/ \E k \in Callers : UiTimeout(k)
  PROVE  ConsentInv'
<1>1. /\ UNCHANGED <<idOf, timed, entries, timers, history, asking, returned>>
      /\ given \subseteq given'
  BY DEF SessionStep, Answer, CloseSession, ResumeSession, UiTimeout
<1>2. /\ IdsUnique' /\ EntriesAgree' /\ PendingOrResolved' /\ FirstVerdictStands'
      /\ (\A n \in Asks \ Made : returned[n] = "waiting")'
  BY <1>1 DEF ConsentInv, IdsUnique, EntriesAgree, PendingOrResolved, FirstVerdictStands,
            Made, Pending, Resolved, Own
<1>3. RecordConsents'
  BY <1>1, AllowedStays DEF ConsentInv, RecordConsents
<1>4. MapsAgree(uiIds, asking)' /\ RepliesConsent(ui, asking)'
  BY SessionReplies DEF ConsentInv
<1> QED BY <1>2, <1>3, <1>4 DEF ConsentInv

(* A continuation that drops an ask with the decision of its UI ask.       *)
LEMMA DecisionConsents ==
  ASSUME TypeOK, ConsentInv, NEW k \in Callers, ui[k] \in UiReplies,
         asking[k] \in Made, Drop(asking[k], MapUiReply(ui[k])),
         UNCHANGED <<idOf, given>>
  PROVE  /\ IdsUnique' /\ EntriesAgree' /\ PendingOrResolved' /\ RecordConsents'
         /\ \A c \in Ids : \A v : Unmapped(k)[c] = NoCaller =>
               Dismissed(Freed(k), Unmapped(k), c, v) = Freed(k)
<1>1. PICK n \in Made : n = asking[k]
  OBVIOUS
<1>2. PICK v \in Verdicts : v = MapUiReply(ui[k])
  BY ReplyTypes
<1>3. v \in Allows => Allowed(n)
  BY <1>1, <1>2 DEF ConsentInv, RepliesConsent
<1>4. v \in Allows => Allowed(n)'
  BY <1>3, AllowedStays
<1>5. RecordConsents'
  BY <1>1, <1>2, <1>4, DropConsents DEF ConsentInv
<1>6. IdsUnique' /\ EntriesAgree' /\ PendingOrResolved'
  BY <1>1, <1>2, DropResolves DEF ConsentInv, IdsUnique, Made
<1> QED BY <1>5, <1>6 DEF Dismissed

LEMMA ContinuationConsents ==
  ASSUME TypeOK, ConsentInv, Continuation
  PROVE  ConsentInv'
<1>1. ASSUME NEW k \in Callers, ui[k] \in Settled
      PROVE  /\ asking[k] # NoAsk /\ asking[k] \in Made /\ idOf[asking[k]] \in Ids
             /\ MapsAgree(Unmapped(k), [asking EXCEPT ![k] = NoAsk])
             /\ RepliesConsent(Freed(k), [asking EXCEPT ![k] = NoAsk])
             /\ UiTypeOK(Freed(k), Unmapped(k), [asking EXCEPT ![k] = NoAsk])
             /\ Unmapped(k)[idOf[asking[k]]] = NoCaller
  <2>1. asking[k] # NoAsk
    BY <1>1 DEF TypeOK, Settled, UiReplies
  <2> QED BY <1>1, <2>1, FreedConsents, FreedTypes, MadeTypes DEF ConsentInv
<1>2. UiReplies \subseteq Settled /\ "rejected" \in Settled
  BY DEF Settled
<1>3. idOf' = idOf /\ given' = given /\ Made' = Made /\ \A n : Allowed(n)' = Allowed(n)
  BY DEF Continuation, RequestDecided, RequestOvertaken, ReconnectDecided,
         ReconnectUndecided, Made, Allowed, Entry
<1>4. ASSUME NEW n \in Asks, RequestDecided(n) PROVE ConsentInv'
  <2>1. /\ asking[n] = n /\ n \in Made /\ n \in Callers
        /\ ui[n] \in UiReplies /\ entries[idOf[n]] = n
    BY <1>1, <1>2, <1>4, AskTypes DEF RequestDecided, TypeOK
  <2>2. PICK v \in Verdicts : v = MapUiReply(ui[n])
    BY ReplyTypes
  <2>3. /\ Drop(n, v) /\ Complete(Freed(n), Unmapped(n), n, v)
        /\ asking' = [asking EXCEPT ![n] = NoAsk]
        /\ returned' = [returned EXCEPT ![n] = v]
    BY <1>4, <2>2 DEF RequestDecided
  <2>4. /\ IdsUnique' /\ EntriesAgree' /\ PendingOrResolved' /\ RecordConsents'
        /\ Dismissed(Freed(n), Unmapped(n), idOf[n], v) = Freed(n)
    BY <1>1, <1>2, <1>3, <2>1, <2>2, <2>3, DecisionConsents
  <2>5. ui' = Freed(n) /\ uiIds' = Unmapped(n)
    <3>1. /\ Unmapped(n) \in [Ids -> {NoCaller} \cup Callers] /\ idOf[n] \in Ids
          /\ Unmapped(n)[idOf[n]] = NoCaller
      BY <1>1, <1>2, <2>1 DEF UiTypeOK
    <3>2. uiIds' = [Unmapped(n) EXCEPT ![idOf[n]] = NoCaller]
      BY <2>3 DEF Complete
    <3>3. uiIds' = Unmapped(n)
      BY <3>1, <3>2
    <3> QED BY <2>3, <2>4, <3>3 DEF Complete
  <2>6. MapsAgree(uiIds, asking)' /\ RepliesConsent(ui, asking)'
    BY <1>1, <1>2, <1>3, <2>1, <2>3, <2>5 DEF MapsAgree, RepliesConsent
  <2>7. Own(n) = {}
    <3>1. n \notin Resolved
      BY <2>1 DEF ConsentInv, PendingOrResolved, Pending
    <3> QED BY <3>1 DEF Resolved, Own
  <2>8. FirstVerdictStands'
    <3>1. ASSUME NEW m \in Made, returned'[m] \in Verdicts
          PROVE  Own(m)' # {} /\ history'[First(Own(m)')].verdict = returned'[m]
      <4>1. CASE m = n
        BY <2>1, <2>3, <2>7, <4>1, DropKeepsFirst, MadeTypes DEF TypeOK
      <4>2. CASE m # n
        BY <2>1, <2>3, <3>1, <4>2, DropKeepsFirst, MadeTypes
           DEF TypeOK, ConsentInv, FirstVerdictStands
      <4> QED BY <4>1, <4>2
    <3> QED BY <1>3, <3>1 DEF FirstVerdictStands
  <2>9. \A m \in Asks \ Made' : returned'[m] = "waiting"
    BY <1>3, <2>1, <2>3 DEF ConsentInv, TypeOK
  <2> QED BY <2>4, <2>6, <2>8, <2>9 DEF ConsentInv
<1>5. ASSUME NEW n \in Asks, RequestOvertaken(n) PROVE ConsentInv'
  <2>1. asking[n] = n /\ n \in Made /\ n \in Callers /\ ui[n] \in Settled
    BY <1>1, <1>5, AskTypes DEF RequestOvertaken, TypeOK
  <2>2. /\ ui' = Freed(n) /\ uiIds' = Unmapped(n)
        /\ asking' = [asking EXCEPT ![n] = NoAsk]
        /\ returned' = [returned EXCEPT ![n] = FirstInHistory(idOf[n])]
        /\ UNCHANGED <<entries, timers, history>>
    BY <1>5 DEF RequestOvertaken
  <2>3. MapsAgree(uiIds, asking)' /\ RepliesConsent(ui, asking)'
    BY <1>1, <1>3, <2>1, <2>2 DEF MapsAgree, RepliesConsent
  <2>4. /\ IdsUnique' /\ EntriesAgree' /\ PendingOrResolved' /\ RecordConsents'
        /\ \A m : Own(m)' = Own(m)
    BY <1>3, <2>2 DEF ConsentInv, IdsUnique, EntriesAgree, PendingOrResolved, Pending,
                     Resolved, RecordConsents, Own
  <2>5. Found(idOf[n]) = Own(n)
    <3>1. \A i \in DOMAIN history : history[i].ask \in Made
      BY ResolvedMade DEF Resolved
    <3> QED BY <2>1, <3>1 DEF Found, Own, ConsentInv, IdsUnique
  <2>6. FirstVerdictStands'
    <3>1. ASSUME NEW m \in Made, returned'[m] \in Verdicts
          PROVE  Own(m) # {} /\ history[First(Own(m))].verdict = returned'[m]
      <4>1. CASE m = n
        <5>1. returned'[n] = FirstInHistory(idOf[n])
          BY <2>1, <2>2, MadeTypes DEF TypeOK
        <5> QED BY <2>5, <3>1, <4>1, <5>1, VerdictTypes DEF FirstInHistory
      <4>2. CASE m # n
        BY <2>2, <3>1, <4>2, MadeTypes DEF TypeOK, ConsentInv, FirstVerdictStands
      <4> QED BY <4>1, <4>2
    <3> QED BY <1>3, <2>2, <2>4, <3>1 DEF FirstVerdictStands
  <2>7. \A m \in Asks \ Made' : returned'[m] = "waiting"
    BY <1>3, <2>1, <2>2 DEF ConsentInv, TypeOK
  <2> QED BY <2>3, <2>4, <2>6, <2>7 DEF ConsentInv
<1>6. ASSUME NEW r \in Reconnecters, ReconnectDecided(r) PROVE ConsentInv'
  <2>1. PICK n \in Made : n = asking[r] /\ idOf[n] \in Ids
    BY <1>1, <1>2, <1>6, AskTypes DEF ReconnectDecided
  <2>2. PICK v \in Verdicts : v = MapUiReply(ui[r])
    BY ReplyTypes
  <2>3. /\ Drop(n, v) /\ ui[r] \in UiReplies /\ r \in Callers
        /\ ServeNext(r, Remaining(entries', n),
                     Dismissed(Freed(r), Unmapped(r), idOf[n], v), Unmapped(r))
        /\ UNCHANGED <<idOf, returned, given>>
    BY <1>6, <2>1, <2>2, AskTypes DEF ReconnectDecided
  <2>4. /\ IdsUnique' /\ EntriesAgree' /\ PendingOrResolved' /\ RecordConsents'
        /\ Dismissed(Freed(r), Unmapped(r), idOf[n], v) = Freed(r)
    BY <1>1, <1>2, <2>1, <2>2, <2>3, DecisionConsents
  <2>5. Remaining(entries', n) \subseteq Made
    BY <2>1, <2>2, <2>3, DropTypes, AheadMade DEF Remaining
  <2>6. MapsAgree(uiIds, asking)' /\ RepliesConsent(ui, asking)'
    BY <1>1, <1>2, <2>3, <2>4, <2>5, ServeConsents
  <2>7. FirstVerdictStands'
    BY <1>3, <2>1, <2>2, <2>3, DropKeepsFirst DEF ConsentInv, FirstVerdictStands
  <2> QED BY <1>3, <2>3, <2>4, <2>6, <2>7 DEF ConsentInv
<1>7. ASSUME NEW r \in Reconnecters, ReconnectUndecided(r) PROVE ConsentInv'
  <2>1. /\ ServeNext(r, Remaining(entries, asking[r]), Freed(r), Unmapped(r))
        /\ UNCHANGED <<idOf, timed, entries, timers, history, live, returned, given>>
        /\ ui[r] \in Settled /\ r \in Callers
    BY <1>2, <1>7, AskTypes DEF ReconnectUndecided
  <2>2. Remaining(entries, asking[r]) \subseteq Made
    BY AheadMade DEF Remaining, TypeOK
  <2>3. MapsAgree(uiIds, asking)' /\ RepliesConsent(ui, asking)'
    BY <1>1, <2>1, <2>2, ServeConsents
  <2> QED BY <1>3, <2>1, <2>3 DEF ConsentInv, IdsUnique, EntriesAgree, PendingOrResolved,
           Pending, Resolved, RecordConsents, FirstVerdictStands, Own
<1> QED BY <1>4, <1>5, <1>6, <1>7 DEF Continuation

LEMMA ConsentStep ==
  ASSUME Reusable = {}, TypeOK, ConsentInv, [Next]_vars
  PROVE  ConsentInv'
<1>1. ASSUME NEW s \in Sessions, NEW c \in Ids, NEW v \in ClientVerdicts, Resolve(s, c, v)
      PROVE  ConsentInv'
  <2>1. v \in Verdicts
    BY ReplyTypes
  <2> QED BY <1>1, <2>1, ResolutionConsents DEF Resolve
<1>2. ASSUME NEW c \in Ids, Timeout(c) PROVE ConsentInv'
  BY <1>2, ReplyTypes, VerdictTypes, ResolutionConsents DEF Timeout
<1>3. ASSUME NEW r \in Reconnecters, NEW s \in Sessions, Reconnect(r, s) PROVE ConsentInv'
  <2>1. Ahead(entries, s, NoAsk) \subseteq Made
    BY AheadMade DEF TypeOK
  <2>2. /\ [asking EXCEPT ![r] = NoAsk] = asking
        /\ ServeNext(r, Ahead(entries, s, NoAsk), ui, uiIds)
        /\ UNCHANGED <<idOf, timed, entries, timers, history, live, returned, given>>
    BY <1>3 DEF Reconnect, TypeOK
  <2>3. MapsAgree(uiIds, asking)' /\ RepliesConsent(ui, asking)'
    BY <2>1, <2>2, UiNow, ServeConsents DEF ConsentInv
  <2> QED BY <2>2, <2>3 DEF ConsentInv, IdsUnique, EntriesAgree, PendingOrResolved, Made,
           Pending, Resolved, RecordConsents, FirstVerdictStands, Own, Allowed, Entry
<1>4. CASE UNCHANGED vars
  BY <1>4 DEF vars, ConsentInv, IdsUnique, EntriesAgree, PendingOrResolved, Made, Pending,
     Resolved, RecordConsents, FirstVerdictStands, Own, Allowed, Entry, MapsAgree,
     RepliesConsent
<1> QED BY <1>1, <1>2, <1>3, <1>4, RequestConsents, SessionConsents, ContinuationConsents
        DEF Next, Calls, Timers

LEMMA ConsentInvariant == ASSUME Reusable = {} PROVE Spec => []ConsentInv
<1>1. Init => ConsentInv
  <2> SUFFICES ASSUME Init PROVE ConsentInv
    OBVIOUS
  <2>1. Made = {} /\ DOMAIN history = {} /\ Asks \ Made = Asks
    BY DEF Init, Made
  <2> QED BY <2>1, VerdictTypes
       DEF Init, ConsentInv, IdsUnique, EntriesAgree, PendingOrResolved, MapsAgree,
           RepliesConsent, RecordConsents, FirstVerdictStands, Pending, Resolved
<1>2. TypeOK /\ ConsentInv /\ [Next]_vars => ConsentInv'
  BY ConsentStep
<1> QED BY <1>1, <1>2, TypeCorrect, PTL DEF Spec

(* While no correlation id is sent twice, an ask is recorded or returned   *)
(* as allowed only if its user or a client allowed it, also when it was     *)
(* asked several times, timed out, or outlived its session.                *)
THEOREM NothingIsAutoApproved == ASSUME Reusable = {} PROVE Spec => []AllowWasGiven
<1>1. TypeOK /\ ConsentInv => AllowWasGiven
  <2> SUFFICES ASSUME TypeOK, ConsentInv PROVE AllowWasGiven
    OBVIOUS
  <2>1. ASSUME NEW n \in Made, returned[n] \in Allows PROVE Allowed(n)
    <3>1. Own(n) # {} /\ history[First(Own(n))].verdict = returned[n]
      BY <2>1, VerdictTypes DEF ConsentInv, FirstVerdictStands
    <3>2. Own(n) \subseteq Nat
      BY DEF Own, TypeOK
    <3>3. First(Own(n)) \in DOMAIN history /\ history[First(Own(n))].ask = n
      <4>1. First(Own(n)) \in Own(n)
        BY <3>1, <3>2, Least
      <4> QED BY <4>1 DEF Own
    <3> QED BY <2>1, <3>1, <3>3 DEF ConsentInv, RecordConsents
  <2> QED BY <2>1 DEF AllowWasGiven, ConsentInv, RecordConsents
<1> QED BY <1>1, TypeCorrect, ConsentInvariant, PTL

(* While no correlation id is sent twice, request() returns the verdict    *)
(* that resolved its ask first, whatever later drops add to the history.   *)
THEOREM FirstVerdictWins == ASSUME Reusable = {} PROVE Spec => []FirstVerdictStands
<1>1. ConsentInv => FirstVerdictStands
  BY DEF ConsentInv
<1> QED BY <1>1, ConsentInvariant, PTL

-----------------------------------------------------------------------------
(* Without reconnect(), which asks a pending ask a second time, an ask is   *)
(* resolved once, with that its UI ask is dismissed and request() returns, *)
(* also when ids are sent again.                                           *)

OpenIsMapped ==
  \A n \in Made : ui[n] = "open" => n \in Pending /\ uiIds[idOf[n]] = n

OneAskerPerId ==
  \A m, n \in Made :
     asking[m] # NoAsk /\ asking[n] # NoAsk /\ idOf[m] = idOf[n] => m = n

WaitingAsks == \A n \in Made : returned[n] = "waiting" => asking[n] = n

ReleaseInv ==
  /\ EntriesAgree /\ PendingOrResolved /\ ResolvesOnce
  /\ OpenIsMapped /\ OneAskerPerId /\ WaitingAsks

LEMMA ReleaseImplies ==
  ASSUME Reconnecters = {}, TypeOK, ReleaseInv
  PROVE  ResolvedIsReleased
<1> SUFFICES ASSUME Quiet
             PROVE  /\ \A k \in Callers : asking[k] \notin Resolved
                    /\ Waiting \cap Resolved = {}
  BY DEF ResolvedIsReleased
<1>1. ASSUME NEW k \in Callers, asking[k] \in Resolved PROVE FALSE
  <2>1. asking[k] = k /\ k \in Made /\ k # NoAsk
    BY <1>1, ResolvedMade, MadeTypes, AskTypes DEF TypeOK, Callers
  <2>2. ui[k] = "open"
    BY <2>1 DEF Quiet, TypeOK
  <2> QED BY <1>1, <2>1, <2>2 DEF ReleaseInv, OpenIsMapped, PendingOrResolved
<1>2. ASSUME NEW n \in Waiting \cap Resolved PROVE FALSE
  <2>1. n \in Made /\ asking[n] = n /\ n \in Callers
    BY <1>2, MadeTypes, AskTypes DEF Waiting, ReleaseInv, WaitingAsks
  <2> QED BY <1>1, <1>2, <2>1
<1> QED BY <1>1, <1>2

LEMMA DropOnce ==
  ASSUME TypeOK, ResolvesOnce, NEW n \in Made, n \notin Resolved,
         NEW v \in Verdicts, Drop(n, v)
  PROVE  ResolvesOnce'
<1> DEFINE l == Len(history)
<1>1. /\ DOMAIN history' = DOMAIN history \cup {l + 1}
      /\ \A i \in DOMAIN history : history'[i] = history[i] /\ history[i].ask # n
      /\ history'[l + 1].ask = n
  BY Appended DEF Resolved
<1> HIDE DEF l
<1> QED BY <1>1 DEF ResolvesOnce

LEMMA ResolutionReleases ==
  ASSUME TypeOK, ReleaseInv, NEW c \in Ids, entries[c] # NoAsk, NEW v \in Verdicts,
         Drop(entries[c], v), Complete(ui, uiIds, entries[c], v),
         UNCHANGED <<idOf, timed, asking, live, returned>>
  PROVE  ReleaseInv'
<1>1. PICK n \in Made : n = entries[c] /\ idOf[n] = c /\ n \in Pending
  BY AskTypes, MadeTypes DEF TypeOK, ReleaseInv, EntriesAgree, Pending
<1>2. Made' = Made /\ n \notin Resolved
  BY <1>1 DEF Made, ReleaseInv, PendingOrResolved
<1>3. EntriesAgree' /\ PendingOrResolved' /\ ResolvesOnce'
  BY <1>1, <1>2, DropResolves, DropOnce DEF ReleaseInv
<1>4. /\ ui' = Dismissed(ui, uiIds, c, v)
      /\ uiIds' = [uiIds EXCEPT ![c] = NoCaller]
      /\ entries' = [entries EXCEPT ![c] = NoAsk]
  BY <1>1 DEF Complete, Drop
<1>5. ASSUME NEW m \in Made, ui'[m] = "open"
      PROVE  m \in Pending' /\ uiIds'[idOf'[m]] = m
  <2>1. Dismissal(v) # "open" /\ m \in Callers /\ idOf[m] \in Ids
    BY MadeTypes, AskTypes DEF Dismissal
  <2>2. ui[m] = "open"
    BY <1>4, <1>5, <2>1 DEF Dismissed, TypeOK
  <2>3. entries[idOf[m]] = m /\ uiIds[idOf[m]] = m
    BY <2>2 DEF ReleaseInv, OpenIsMapped, Pending
  <2>4. idOf[m] # c
    <3>1. SUFFICES ASSUME idOf[m] = c PROVE FALSE
      OBVIOUS
    <3>2. uiIds[c] = m /\ m # NoCaller
      BY <2>1, <2>3, <3>1, AskTypes
    <3> QED BY <1>4, <1>5, <2>1, <2>2, <3>2 DEF Dismissed, TypeOK
  <2> QED BY <1>2, <1>4, <2>1, <2>3, <2>4 DEF Pending, TypeOK
<1>6. OpenIsMapped'
  BY <1>2, <1>5 DEF OpenIsMapped
<1>7. OneAskerPerId' /\ WaitingAsks'
  BY <1>2 DEF ReleaseInv, OneAskerPerId, WaitingAsks
<1> QED BY <1>3, <1>6, <1>7 DEF ReleaseInv

LEMMA RequestReleases ==
  ASSUME TypeOK, ReleaseInv, NEW c \in Ids, NEW hasTimeout \in BOOLEAN,
         Request(c, hasTimeout)
  PROVE  ReleaseInv'
<1>1. PICK n \in Asks :
        /\ n = Len(idOf) + 1 /\ n \notin Made /\ Made' = Made \cup {n}
        /\ \A m \in Made : idOf'[m] = idOf[m]
        /\ idOf'[n] = c
  BY RequestMakes
<1>2. /\ EntriesAgree' /\ PendingOrResolved' /\ ResolvesOnce'
  BY RequestPends DEF ReleaseInv, ResolvesOnce, Request
<1>3. /\ Quiet /\ entries[c] = NoAsk /\ entries' = [entries EXCEPT ![c] = n]
      /\ n # NoAsk /\ n \in Callers
      /\ Made \subseteq Callers /\ \A m \in Made : m # NoAsk /\ idOf[m] \in Ids
  BY <1>1, MadeTypes, AskTypes DEF Request, MayRequest
<1>4. ASSUME NEW m \in Made, asking[m] # NoAsk
      PROVE  ui[m] = "open" /\ entries[idOf[m]] = m /\ uiIds[idOf[m]] = m /\ idOf[m] # c
  <2>1. ui[m] = "open"
    BY <1>3, <1>4 DEF Quiet, TypeOK
  <2> QED BY <1>3, <2>1 DEF ReleaseInv, OpenIsMapped, Pending
<1>5. asking[n] = NoAsk /\ ui[n] = "none"
  BY <1>1, <1>3 DEF TypeOK
<1>6. \/ /\ asking' = [asking EXCEPT ![n] = n]
         /\ ui' = [ui EXCEPT ![n] = "open"]
         /\ uiIds' = [uiIds EXCEPT ![c] = n]
         /\ returned' = returned
      \/ /\ UNCHANGED <<asking, ui, uiIds>>
         /\ returned' = [returned EXCEPT ![n] = FirstInHistory(c)]
  BY <1>1 DEF Request
<1>7. /\ \A m \in Made' : m # n =>
           m \in Made /\ idOf'[m] = idOf[m] /\ asking'[m] = asking[m]
             /\ ui'[m] = ui[m] /\ returned'[m] = returned[m]
      /\ ui'[n] = "open" => uiIds'[c] = n
  <2>1. ASSUME NEW m \in Made, m # n
        PROVE  /\ asking'[m] = asking[m] /\ ui'[m] = ui[m] /\ returned'[m] = returned[m]
    <3>1. m \in Callers /\ m \in Asks
      BY MadeTypes, AskTypes
    <3>2. returned'[m] = returned[m]
      BY <1>6, <2>1, <3>1 DEF TypeOK
    <3>3. asking'[m] = asking[m] /\ ui'[m] = ui[m]
      BY <1>6, <2>1, <3>1 DEF TypeOK
    <3> QED BY <3>2, <3>3
  <2>2. ui'[n] = "open" => uiIds'[c] = n
    BY <1>5, <1>6 DEF TypeOK
  <2> QED BY <1>1, <2>1, <2>2
<1>8. OpenIsMapped'
  <2>1. ASSUME NEW m \in Made', ui'[m] = "open"
        PROVE  entries'[idOf'[m]] = m /\ uiIds'[idOf'[m]] = m
    <3>1. CASE m = n
      BY <1>1, <1>3, <1>7, <2>1, <3>1 DEF TypeOK
    <3>2. CASE m # n
      <4>1. m \in Made /\ idOf'[m] = idOf[m] /\ ui[m] = "open"
        BY <1>7, <2>1, <3>2
      <4>2. asking[m] # NoAsk
        BY <1>3, <4>1 DEF TypeOK
      <4>3. entries[idOf[m]] = m /\ uiIds[idOf[m]] = m /\ idOf[m] # c /\ idOf[m] \in Ids
        BY <1>3, <1>4, <4>1, <4>2
      <4> QED BY <1>3, <1>6, <4>1, <4>3 DEF TypeOK
    <3> QED BY <3>1, <3>2
  <2> QED BY <2>1 DEF OpenIsMapped, Pending
<1>9. OneAskerPerId'
  <2>1. ASSUME NEW m \in Made', m # n, asking'[m] # NoAsk PROVE idOf'[m] # c
    BY <1>4, <1>7, <2>1
  <2> QED BY <1>1, <1>7, <2>1 DEF ReleaseInv, OneAskerPerId
<1>10. WaitingAsks'
  <2>1. returned'[n] = "waiting" => asking'[n] = n
    <3>1. FirstInHistory(c) # "waiting"
      BY FoundTypes, VerdictTypes
    <3> QED BY <1>3, <1>6, <3>1 DEF TypeOK
  <2> QED BY <1>7, <2>1 DEF ReleaseInv, WaitingAsks
<1> QED BY <1>2, <1>8, <1>9, <1>10 DEF ReleaseInv

LEMMA SessionReleases ==
  ASSUME TypeOK, ReleaseInv, SessionStep \/ \E k \in Callers : UiTimeout(k)
  PROVE  ReleaseInv'
<1>1. UNCHANGED <<idOf, timed, entries, timers, history, asking, returned>>
  BY DEF SessionStep, Answer, CloseSession, ResumeSession, UiTimeout
<1>2. /\ EntriesAgree' /\ PendingOrResolved' /\ ResolvesOnce'
      /\ OneAskerPerId' /\ WaitingAsks' /\ Pending' = Pending /\ Made' = Made
  BY <1>1 DEF ReleaseInv, EntriesAgree, PendingOrResolved, ResolvesOnce, OneAskerPerId,
            WaitingAsks, Made, Pending, Resolved
<1>3. ASSUME NEW n \in Made, ui'[n] = "open"
      PROVE  ui[n] = "open" /\ uiIds'[idOf[n]] = uiIds[idOf[n]]
  <2>1. n \in Callers /\ n # NoAsk /\ idOf[n] \in Ids
    BY MadeTypes, AskTypes
  <2>2. CASE \E k \in Callers : UiTimeout(k)
    BY <1>3, <2>1, <2>2 DEF UiTimeout, TypeOK
  <2>3. CASE \E k \in Callers, reply \in UiReplies : Answer(k, reply)
    BY <1>3, <2>1, <2>3 DEF Answer, TypeOK, UiReplies
  <2>4. ASSUME NEW s \in Sessions, CloseSession(s)
        PROVE  ui[n] = "open" /\ uiIds'[idOf[n]] = uiIds[idOf[n]]
    <3>1. ui[n] = "open" /\ Owner[idOf[asking[n]]] # s
      BY <1>3, <2>1, <2>4 DEF CloseSession
    <3>2. asking[n] = n
      BY <2>1, <3>1, MadeTypes DEF TypeOK
    <3> QED BY <2>1, <2>4, <3>1, <3>2 DEF CloseSession
  <2>5. ASSUME NEW s \in Sessions, ResumeSession(s)
        PROVE  ui[n] = "open" /\ uiIds'[idOf[n]] = uiIds[idOf[n]]
    BY <1>3, <2>5 DEF ResumeSession
  <2> QED BY <2>2, <2>3, <2>4, <2>5 DEF SessionStep
<1>4. OpenIsMapped'
  BY <1>1, <1>2, <1>3 DEF ReleaseInv, OpenIsMapped
<1> QED BY <1>2, <1>4 DEF ReleaseInv

(* Both ways a request() call resumes: its UI ask and its id are freed.    *)
LEMMA FreedReleases ==
  ASSUME TypeOK, ReleaseInv, NEW n \in Made, ui[n] \in Settled,
         idOf' = idOf, ui' = Freed(n), uiIds' = Unmapped(n),
         asking' = [asking EXCEPT ![n] = NoAsk],
         NEW outcome, outcome # "waiting", returned' = [returned EXCEPT ![n] = outcome],
         \A m \in Made : m # n /\ m \in Pending => m \in Pending'
  PROVE  OpenIsMapped' /\ OneAskerPerId' /\ WaitingAsks'
<1>1. /\ Made' = Made /\ Made \subseteq Callers /\ Made \subseteq Asks
      /\ \A m \in Made : m # NoAsk /\ idOf[m] \in Ids
      /\ asking[n] = n /\ "open" \notin Settled
  BY MadeTypes, AskTypes DEF Made, TypeOK, Settled, UiReplies
<1>2. ASSUME NEW m \in Made, ui'[m] = "open"
      PROVE  m \in Pending' /\ uiIds'[idOf[m]] = m
  <2>1. m # n /\ ui[m] = "open"
    BY <1>1, <1>2 DEF Freed, TypeOK
  <2>2. m \in Pending /\ uiIds[idOf[m]] = m /\ asking[m] # NoAsk
    BY <1>1, <2>1 DEF ReleaseInv, OpenIsMapped, TypeOK
  <2>3. idOf[m] # idOf[n]
    BY <1>1, <2>1, <2>2 DEF ReleaseInv, OneAskerPerId
  <2>4. m \in Pending'
    BY <2>1, <2>2
  <2>5. uiIds'[idOf[m]] = m
    BY <1>1, <2>2, <2>3 DEF Unmapped, TypeOK
  <2> QED BY <2>4, <2>5
<1>3. OpenIsMapped'
  BY <1>1, <1>2 DEF OpenIsMapped
<1>4. OneAskerPerId'
  BY <1>1 DEF ReleaseInv, OneAskerPerId, TypeOK
<1>5. WaitingAsks'
  BY <1>1 DEF ReleaseInv, WaitingAsks, TypeOK
<1> QED BY <1>3, <1>4, <1>5

LEMMA ContinuationReleases ==
  ASSUME Reconnecters = {}, TypeOK, ReleaseInv, Continuation
  PROVE  ReleaseInv'
<1>0. UiReplies \subseteq Settled /\ "rejected" \in Settled
  BY DEF Settled
<1>1. ASSUME NEW n \in Asks, ui[n] \in Settled
      PROVE  asking[n] = n /\ n \in Made /\ n \in Callers /\ idOf[n] \in Ids
  BY <1>1, AskTypes, MadeTypes DEF TypeOK, Settled, UiReplies
<1>2. ASSUME NEW n \in Asks, RequestDecided(n) PROVE ReleaseInv'
  <2>1. /\ n \in Made /\ asking[n] = n /\ idOf[n] \in Ids /\ ui[n] \in Settled
        /\ n \in Callers /\ n \in Pending /\ n \notin Resolved
    BY <1>0, <1>1, <1>2 DEF RequestDecided, Pending, ReleaseInv, PendingOrResolved
  <2>2. PICK v \in Verdicts : v = MapUiReply(ui[n])
    BY ReplyTypes
  <2>3. /\ Drop(n, v) /\ Complete(Freed(n), Unmapped(n), n, v) /\ idOf' = idOf
        /\ asking' = [asking EXCEPT ![n] = NoAsk]
        /\ returned' = [returned EXCEPT ![n] = v]
    BY <1>2, <2>2 DEF RequestDecided
  <2>4. EntriesAgree' /\ PendingOrResolved' /\ ResolvesOnce' /\ Resolved' = Resolved \cup {n}
    BY <2>1, <2>3, DropResolves, DropOnce DEF ReleaseInv
  <2>5. ui' = Freed(n) /\ uiIds' = Unmapped(n)
    <3>1. /\ Unmapped(n) \in [Ids -> {NoCaller} \cup Callers]
          /\ Unmapped(n)[idOf[n]] = NoCaller
      BY <2>1 DEF Unmapped, TypeOK
    <3>2. uiIds' = [Unmapped(n) EXCEPT ![idOf[n]] = NoCaller]
      BY <2>3 DEF Complete
    <3>3. uiIds' = Unmapped(n)
      BY <3>1, <3>2
    <3> QED BY <2>3, <3>1, <3>3 DEF Complete, Dismissed
  <2>6. \A m \in Made : m # n /\ m \in Pending => m \in Pending'
    <3>1. Made' = Made
      BY <2>3 DEF Made
    <3> QED BY <2>4, <3>1 DEF ReleaseInv, PendingOrResolved
  <2>7. v # "waiting"
    BY VerdictTypes
  <2>8. OpenIsMapped' /\ OneAskerPerId' /\ WaitingAsks'
    BY <2>1, <2>3, <2>5, <2>6, <2>7, FreedReleases
  <2> QED BY <2>4, <2>8 DEF ReleaseInv
<1>3. ASSUME NEW n \in Asks, RequestOvertaken(n) PROVE ReleaseInv'
  <2>1. n \in Made /\ ui[n] \in Settled
    BY <1>1, <1>3 DEF RequestOvertaken
  <2>2. /\ ui' = Freed(n) /\ uiIds' = Unmapped(n)
        /\ asking' = [asking EXCEPT ![n] = NoAsk]
        /\ returned' = [returned EXCEPT ![n] = FirstInHistory(idOf[n])]
        /\ UNCHANGED <<idOf, entries, timers, history>>
    BY <1>3 DEF RequestOvertaken
  <2>3. FirstInHistory(idOf[n]) # "waiting"
    BY FoundTypes, VerdictTypes
  <2>4. EntriesAgree' /\ PendingOrResolved' /\ ResolvesOnce' /\ Pending' = Pending
    BY <2>2 DEF ReleaseInv, EntriesAgree, PendingOrResolved, ResolvesOnce, Pending, Made,
              Resolved
  <2>5. OpenIsMapped' /\ OneAskerPerId' /\ WaitingAsks'
    BY <2>1, <2>2, <2>3, <2>4, FreedReleases
  <2> QED BY <2>4, <2>5 DEF ReleaseInv
<1> QED BY <1>2, <1>3 DEF Continuation

LEMMA ReleaseStep ==
  ASSUME Reconnecters = {}, TypeOK, ReleaseInv, [Next]_vars
  PROVE  ReleaseInv'
<1>1. ASSUME NEW s \in Sessions, NEW c \in Ids, NEW v \in ClientVerdicts, Resolve(s, c, v)
      PROVE  ReleaseInv'
  <2>1. v \in Verdicts
    BY ReplyTypes
  <2> QED BY <1>1, <2>1, ResolutionReleases DEF Resolve
<1>2. ASSUME NEW c \in Ids, Timeout(c) PROVE ReleaseInv'
  BY <1>2, ReplyTypes, ResolutionReleases DEF Timeout
<1>3. CASE UNCHANGED vars
  BY <1>3 DEF vars, ReleaseInv, EntriesAgree, PendingOrResolved, ResolvesOnce, Made, Pending,
     Resolved, OpenIsMapped, OneAskerPerId, WaitingAsks
<1> QED BY <1>1, <1>2, <1>3, RequestReleases, SessionReleases, ContinuationReleases
        DEF Next, Calls, Timers

(* As long as nobody reconnects, an ask is resolved at most once, is       *)
(* pending until it is, and no UI ask or request() call outlives that.     *)
THEOREM AskedOnceResolvesOnce ==
  ASSUME Reconnecters = {}
  PROVE  Spec => [](ResolvesOnce /\ PendingOrResolved /\ ResolvedIsReleased)
<1>1. Init => ReleaseInv
  <2> SUFFICES ASSUME Init PROVE ReleaseInv
    OBVIOUS
  <2>1. Made = {} /\ DOMAIN history = {}
    BY DEF Init, Made
  <2> QED BY <2>1 DEF Init, ReleaseInv, EntriesAgree, PendingOrResolved, ResolvesOnce,
       OpenIsMapped, OneAskerPerId, WaitingAsks
<1>2. TypeOK /\ ReleaseInv /\ [Next]_vars => ReleaseInv'
  BY ReleaseStep
<1>3. TypeOK /\ ReleaseInv => ResolvesOnce /\ PendingOrResolved /\ ResolvedIsReleased
  BY ReleaseImplies DEF ReleaseInv
<1> QED BY <1>1, <1>2, <1>3, TypeCorrect, PTL DEF Spec

(* An ask is not resolved a second time (broker.ts:67-89, 127-145), also   *)
(* when ids are sent again, while nobody calls reconnect().                *)
THEOREM ResolvedOnce == ASSUME Reconnecters = {} PROVE Spec => []ResolvesOnce
<1>1. Spec => [](ResolvesOnce /\ PendingOrResolved /\ ResolvedIsReleased)
  BY AskedOnceResolvesOnce
<1> QED BY <1>1, PTL

-----------------------------------------------------------------------------
(* Without reconnect() the broker keeps the promise of ApprovalDecisions,   *)
(* also when ids are sent again.                                           *)

(* Nobody has been told anything whose ask is not made or still asked.     *)
AskersWait ==
  \A n \in Asks : asking[n] # NoAsk \/ n \notin Made => returned[n] = "waiting"

PromiseInv ==
  /\ ReleaseInv /\ AskersWait
  /\ MapsAgree(uiIds, asking) /\ RepliesConsent(ui, asking)

(* The UI ask that a resolution dismisses is that of the resolved ask.     *)
LEMMA PendingIsMapped ==
  ASSUME Reconnecters = {}, TypeOK, ReleaseInv, MapsAgree(uiIds, asking),
         NEW n \in Made, n \in Pending
  PROVE  MappedAsks(n)
<1> DEFINE k == uiIds[idOf[n]]
<1> SUFFICES ASSUME k # NoCaller, ui[k] = "open" PROVE asking[k] = n
  BY DEF MappedAsks
<1>1. idOf[n] \in Ids /\ k \in Asks /\ k \in Callers
  BY MadeTypes DEF TypeOK, Callers
<1>2. asking[k] \in Made /\ idOf[asking[k]] = idOf[n]
  BY <1>1 DEF MapsAgree
<1>3. asking[k] = k
  BY <1>1, <1>2, MadeTypes, AskTypes DEF TypeOK
<1>4. entries[idOf[k]] = k
  BY <1>2, <1>3 DEF ReleaseInv, OpenIsMapped, Pending
<1> QED BY <1>2, <1>3, <1>4 DEF Pending

LEMMA RequestWaits ==
  ASSUME TypeOK, AskersWait, NEW c \in Ids, NEW hasTimeout \in BOOLEAN, Request(c, hasTimeout)
  PROVE  AskersWait'
<1>1. PICK n \in Asks : n = Len(idOf) + 1 /\ n \notin Made /\ Made' = Made \cup {n}
  BY RequestMakes
<1>2. \/ /\ asking' = [asking EXCEPT ![n] = n] /\ returned' = returned
      \/ /\ asking' = asking /\ returned' = [returned EXCEPT ![n] = FirstInHistory(c)]
  BY <1>1 DEF Request
<1>3. asking[n] = NoAsk /\ n \in Callers
  BY <1>1, AskTypes DEF TypeOK
<1>4. ASSUME NEW m \in Asks, asking'[m] # NoAsk \/ m \notin Made' PROVE returned'[m] = "waiting"
  <2>1. CASE m = n
    BY <1>1, <1>2, <1>3, <1>4, <2>1 DEF AskersWait, TypeOK
  <2>2. CASE m # n
    <3>1. asking'[m] = asking[m] /\ returned'[m] = returned[m] /\ (m \in Made' <=> m \in Made)
      BY <1>1, <1>2, <2>2, AskTypes DEF TypeOK
    <3> QED BY <1>4, <3>1 DEF AskersWait
  <2> QED BY <2>1, <2>2
<1> QED BY <1>4 DEF AskersWait

(* A request() call that resumes has been told, and asks no more.          *)
LEMMA ResumedPromise ==
  ASSUME TypeOK, PromiseInv, ReleaseInv', NEW n \in Asks, ui[n] \in Settled,
         ui' = Freed(n), uiIds' = Unmapped(n), asking' = [asking EXCEPT ![n] = NoAsk],
         NEW outcome, returned' = [returned EXCEPT ![n] = outcome],
         UNCHANGED <<idOf, given>>
  PROVE  PromiseInv'
<1>1. /\ n \in Callers /\ asking[n] # NoAsk /\ n \in Made
      /\ Made' = Made /\ \A m : Allowed(m)' = Allowed(m)
  <2>1. asking[n] # NoAsk
    BY AskTypes DEF TypeOK, Settled, UiReplies
  <2> QED BY <2>1, AskTypes, MadeTypes DEF TypeOK, Made, Allowed, Entry
<1>2. MapsAgree(uiIds, asking)' /\ RepliesConsent(ui, asking)'
  <2>1. /\ MapsAgree(Unmapped(n), [asking EXCEPT ![n] = NoAsk])
        /\ RepliesConsent(Freed(n), [asking EXCEPT ![n] = NoAsk])
    BY <1>1, FreedConsents DEF PromiseInv
  <2> QED BY <1>1, <2>1 DEF MapsAgree, RepliesConsent
<1>3. AskersWait'
  BY <1>1, AskTypes DEF PromiseInv, AskersWait, TypeOK
<1> QED BY <1>2, <1>3 DEF PromiseInv

(* The step of request() that drops, without the drop's complete(), which  *)
(* finds the id unmapped.                                                  *)
LEMMA DecidedFrees ==
  ASSUME TypeOK, NEW n \in Asks, RequestDecided(n)
  PROVE  /\ ui[n] \in Settled /\ n \in Made /\ asking[n] = n
         /\ ui' = Freed(n) /\ uiIds' = Unmapped(n)
<1>1. n \in Callers /\ ui[n] \in UiReplies
  BY AskTypes DEF RequestDecided
<1>2. ui[n] \in Settled /\ asking[n] # NoAsk
  BY <1>1, VerdictTypes DEF TypeOK, Settled
<1>3. n \in Made /\ asking[n] = n /\ idOf[n] \in Ids
  BY <1>1, <1>2, MadeTypes DEF TypeOK
<1>4. /\ Unmapped(n) \in [Ids -> {NoCaller} \cup Callers]
      /\ Unmapped(n)[idOf[n]] = NoCaller
  BY <1>3 DEF Unmapped, TypeOK
<1>5. /\ ui' = Dismissed(Freed(n), Unmapped(n), idOf[n], MapUiReply(ui[n]))
      /\ uiIds' = [Unmapped(n) EXCEPT ![idOf[n]] = NoCaller]
  BY DEF RequestDecided, Complete
<1>6. ui' = Freed(n)
  BY <1>4, <1>5 DEF Dismissed
<1>7. uiIds' = Unmapped(n)
  BY <1>4, <1>5
<1> QED BY <1>2, <1>3, <1>6, <1>7

LEMMA ResolutionPromise ==
  ASSUME Reconnecters = {}, TypeOK, PromiseInv, ReleaseInv',
         NEW c \in Ids, entries[c] # NoAsk, NEW v \in Verdicts,
         Drop(entries[c], v), Complete(ui, uiIds, entries[c], v),
         given \subseteq given', v \in Allows => Entry(entries[c], v) \in given',
         UNCHANGED <<idOf, asking, returned>>
  PROVE  PromiseInv'
<1>1. PICK n \in Made : n = entries[c] /\ n \in Pending
  BY AskTypes, MadeTypes DEF TypeOK, PromiseInv, ReleaseInv, EntriesAgree, Pending
<1>2. v \in Allows => Allowed(n)'
  BY <1>1 DEF Allowed, Entry
<1>3. MapsAgree(uiIds, asking)' /\ RepliesConsent(ui, asking)'
  BY <1>1, <1>2, PendingIsMapped, CompleteConsents DEF PromiseInv
<1>4. AskersWait'
  BY DEF PromiseInv, AskersWait, Made
<1> QED BY <1>3, <1>4 DEF PromiseInv

LEMMA PromiseStep ==
  ASSUME Reconnecters = {}, TypeOK, PromiseInv, [Next]_vars
  PROVE  PromiseInv'
<1>0. ReleaseInv'
  BY ReleaseStep DEF PromiseInv
<1>1. ASSUME NEW c \in Ids, NEW hasTimeout \in BOOLEAN, Request(c, hasTimeout) PROVE PromiseInv'
  BY <1>0, <1>1, RequestReplies, RequestWaits DEF PromiseInv
<1>2. ASSUME NEW s \in Sessions, NEW c \in Ids, NEW v \in ClientVerdicts, Resolve(s, c, v)
      PROVE  PromiseInv'
  <2>1. v \in Verdicts
    BY ReplyTypes
  <2> QED BY <1>0, <1>2, <2>1, ResolutionPromise DEF Resolve
<1>3. ASSUME NEW c \in Ids, Timeout(c) PROVE PromiseInv'
  BY <1>0, <1>3, ReplyTypes, VerdictTypes, ResolutionPromise DEF Timeout
<1>4. ASSUME SessionStep \/ \E k \in Callers : UiTimeout(k) PROVE PromiseInv'
  <2>1. UNCHANGED <<idOf, asking, returned>>
    BY <1>4 DEF SessionStep, Answer, CloseSession, ResumeSession, UiTimeout
  <2>2. AskersWait'
    BY <2>1 DEF PromiseInv, AskersWait, Made
  <2> QED BY <1>0, <1>4, <2>2, SessionReplies DEF PromiseInv
<1>5. ASSUME NEW n \in Asks, RequestDecided(n) PROVE PromiseInv'
  BY <1>0, <1>5, DecidedFrees, ResumedPromise DEF RequestDecided
<1>6. ASSUME NEW n \in Asks, RequestOvertaken(n) PROVE PromiseInv'
  BY <1>0, <1>6, ResumedPromise DEF RequestOvertaken
<1>7. CASE UNCHANGED vars
  BY <1>0, <1>7 DEF vars, PromiseInv, AskersWait, Made, MapsAgree, RepliesConsent, Allowed, Entry
<1> QED BY <1>1, <1>2, <1>3, <1>4, <1>5, <1>6, <1>7
        DEF Next, Calls, Timers, Continuation

LEMMA PromiseInvariant == ASSUME Reconnecters = {} PROVE Spec => []PromiseInv
<1>1. Init => PromiseInv
  <2> SUFFICES ASSUME Init PROVE PromiseInv
    OBVIOUS
  <2>1. Made = {} /\ DOMAIN history = {}
    BY DEF Init, Made
  <2> QED BY <2>1, VerdictTypes
       DEF Init, PromiseInv, ReleaseInv, EntriesAgree, PendingOrResolved, ResolvesOnce,
           OpenIsMapped, OneAskerPerId, WaitingAsks, AskersWait, MapsAgree, RepliesConsent
<1>2. TypeOK /\ PromiseInv /\ [Next]_vars => PromiseInv'
  BY PromiseStep
<1> QED BY <1>1, <1>2, TypeCorrect, PTL DEF Spec

(* What of the promise is what of the broker.                              *)
LEMMA PromiseTerms ==
  ASSUME TypeOK, PendingOrResolved
  PROVE  /\ Decisions!Undecided = Pending
         /\ \A n, v : Decisions!Verdict(n, v) = Entry(n, v)
         /\ \A c : FirstInHistory(c) \in Decisions!Tellable(history, c)
<1>1. Decisions!Undecided = Pending
  BY DEF Decisions!Undecided, PendingOrResolved, Pending, Resolved, Made
<1>2. \A n, v : Decisions!Verdict(n, v) = Entry(n, v)
  BY DEF Decisions!Verdict, Entry
<1>3. ASSUME NEW c PROVE FirstInHistory(c) \in Decisions!Tellable(history, c)
  <2>1. CASE Found(c) = {}
    BY <2>1 DEF FirstInHistory, Decisions!Tellable
  <2>2. CASE Found(c) # {}
    <3>1. Found(c) \subseteq Nat
      BY DEF Found, TypeOK
    <3>2. First(Found(c)) \in Found(c)
      BY <2>2, <3>1, Least
    <3> QED BY <2>2, <3>2 DEF FirstInHistory, Found, Decisions!Tellable
  <2> QED BY <2>1, <2>2
<1> QED BY <1>1, <1>2, <1>3

(* A resolution by a client, the timer or the call's own UI ask decides.   *)
LEMMA DropDecides ==
  ASSUME TypeOK, PendingOrResolved, NEW n \in Made, n \in Pending,
         NEW v \in Verdicts, Drop(n, v), UNCHANGED idOf,
         given' \in {given, given \cup {Entry(n, v)}},
         v \in Allows => Allowed(n)',
         returned' \in {returned, [returned EXCEPT ![n] = v]},
         returned' # returned => returned[n] = "waiting"
  PROVE  Decisions!DecisionsNext
<1>1. /\ n \in Decisions!Undecided /\ Decisions!Verdict(n, v) = Entry(n, v)
      /\ \A w : Decisions!Verdict(n, w) = Entry(n, w)
  BY PromiseTerms
<1>2. history' = Append(history, Entry(n, v))
  BY DEF Drop
<1>3. v \in Allows => \E w \in Allows : Entry(n, w) \in given'
  BY DEF Allowed, Entry
<1>4. Decisions!Decide(n, v)
  BY <1>1, <1>2, <1>3 DEF Decisions!Decide
<1>5. n \in DOMAIN idOf /\ v \in Allows \cup (Verdicts \ Allows)
  BY DEF Made
<1> QED BY <1>4, <1>5 DEF Decisions!DecisionsNext

(* Every step of the broker is a step of its promise, or none.             *)
LEMMA PromiseKept ==
  ASSUME Reconnecters = {}, TypeOK, PromiseInv, [Next]_vars
  PROVE  [Decisions!DecisionsNext]_(Decisions!decisionVars)
<1>0. PendingOrResolved /\ EntriesAgree
  BY DEF PromiseInv, ReleaseInv
<1>1. ASSUME NEW c \in Ids, NEW hasTimeout \in BOOLEAN, Request(c, hasTimeout)
      PROVE  Decisions!DecisionsNext
  <2>1. PICK n \in Asks : n = Len(idOf) + 1 /\ n \notin Made
    BY <1>1, RequestMakes
  <2>2. n <= MaxRequests
    BY <2>1, MaxRequestsAssumption DEF Asks
  <2>3. \A m \in Decisions!Undecided : idOf[m] # c
    BY <1>0, <1>1, PromiseTerms, MadeTypes, AskTypes DEF Pending, Request, MayRequest
  <2>4. \E t \in {"waiting"} \cup Decisions!Tellable(history, c) :
           returned' = [returned EXCEPT ![n] = t]
    <3>1. CASE returned' = returned
      <4>1. returned[n] = "waiting"
        BY <2>1 DEF PromiseInv, AskersWait
      <4>2. returned' = [returned EXCEPT ![n] = "waiting"]
        BY <3>1, <4>1 DEF TypeOK
      <4> QED BY <4>2
    <3>2. CASE returned' = [returned EXCEPT ![n] = FirstInHistory(c)]
      BY <1>0, <3>2, PromiseTerms
    <3> QED BY <1>1, <2>1, <3>1, <3>2 DEF Request
  <2>5. Decisions!Ask(c)
    BY <1>1, <2>1, <2>2, <2>3, <2>4 DEF Decisions!Ask, Request
  <2> QED BY <2>5 DEF Decisions!DecisionsNext
<1>2. ASSUME NEW s \in Sessions, NEW c \in Ids, NEW v \in ClientVerdicts, Resolve(s, c, v)
      PROVE  Decisions!DecisionsNext
  <2>1. PICK n \in Made : n = entries[c] /\ n \in Pending
    BY <1>0, <1>2, AskTypes, MadeTypes DEF TypeOK, EntriesAgree, Pending, Resolve
  <2>2. v \in Verdicts /\ Drop(n, v) /\ UNCHANGED <<idOf, returned>>
        /\ given' = given \cup {Entry(n, v)}
    BY <1>2, <2>1, ReplyTypes DEF Resolve
  <2>3. v \in Allows => Allowed(n)'
    BY <2>2 DEF Allowed, Entry
  <2> QED BY <1>0, <2>1, <2>2, <2>3, DropDecides
<1>3. ASSUME NEW c \in Ids, Timeout(c) PROVE Decisions!DecisionsNext
  <2>1. PICK n \in Made : n = entries[c] /\ n \in Pending
    BY <1>0, <1>3, AskTypes, MadeTypes DEF TypeOK, EntriesAgree, Pending, Timeout
  <2> QED BY <1>0, <1>3, <2>1, ReplyTypes, VerdictTypes, DropDecides DEF Timeout
<1>4. ASSUME NEW k \in Callers, NEW reply \in UiReplies, Answer(k, reply)
      PROVE  Decisions!DecisionsNext
  <2>1. asking[k] \in DOMAIN idOf
    BY <1>4 DEF Answer, TypeOK, Made
  <2>2. MapUiReply(reply) \in Allows \cup (Verdicts \ Allows)
    BY ReplyTypes
  <2>3. Decisions!Say(asking[k], MapUiReply(reply))
    BY <1>0, <1>4, PromiseTerms DEF Answer, Decisions!Say
  <2> QED BY <2>1, <2>2, <2>3 DEF Decisions!DecisionsNext
<1>5. ASSUME NEW n \in Asks, RequestDecided(n) PROVE Decisions!DecisionsNext
  <2>1. n \in Made /\ n \in Pending /\ asking[n] = n /\ n \in Callers
    BY <1>5, DecidedFrees, AskTypes DEF RequestDecided, Pending
  <2>2. PICK v \in Verdicts : v = MapUiReply(ui[n])
    BY ReplyTypes
  <2>3. /\ Drop(n, v) /\ UNCHANGED <<idOf, given>>
        /\ returned' = [returned EXCEPT ![n] = v] /\ returned[n] = "waiting"
    BY <1>5, <2>1, <2>2, MadeTypes, AskTypes DEF RequestDecided, PromiseInv, AskersWait
  <2>4. v \in Allows => Allowed(n)
    BY <1>5, <2>1, <2>2 DEF RequestDecided, PromiseInv, RepliesConsent
  <2>5. v \in Allows => Allowed(n)'
    BY <2>3, <2>4, AllowedStays
  <2> QED BY <1>0, <2>1, <2>3, <2>5, DropDecides
<1>6. ASSUME NEW n \in Asks, RequestOvertaken(n) PROVE Decisions!DecisionsNext
  <2>1. n \in Callers /\ asking[n] = n /\ n \in Made
    BY <1>6, AskTypes, MadeTypes DEF RequestOvertaken, TypeOK, Settled, UiReplies
  <2>2. returned[n] = "waiting"
    BY <2>1, AskTypes, MadeTypes DEF PromiseInv, AskersWait
  <2>3. Decisions!Tell(n, FirstInHistory(idOf[n]))
    BY <1>0, <1>6, <2>2, PromiseTerms DEF RequestOvertaken, Decisions!Tell
  <2>4. /\ FirstInHistory(idOf[n]) \in {"pending"} \cup Allows \cup (Verdicts \ Allows)
        /\ n \in DOMAIN idOf
    BY <2>1, FoundTypes DEF Made
  <2> QED BY <2>3, <2>4 DEF Decisions!DecisionsNext
<1>7. (\E k \in Callers : UiTimeout(k)) \/ (\E s \in Sessions : CloseSession(s) \/ ResumeSession(s))
        \/ UNCHANGED vars
      => UNCHANGED Decisions!decisionVars
  BY DEF UiTimeout, CloseSession, ResumeSession, vars, Decisions!decisionVars
<1> QED BY <1>1, <1>2, <1>3, <1>4, <1>5, <1>6, <1>7
        DEF Next, Calls, Timers, SessionStep, Continuation

(* The broker keeps its promise (broker.ts:96-145), for any ids, sessions   *)
(* and requests: an ask is decided once, with an allow only if somebody     *)
(* gave one, and request() returns once, with "pending" or the outcome of   *)
(* an ask of its id.  reconnect() breaks it: it asks and decides again.     *)
THEOREM BrokerKeepsItsPromise == ASSUME Reconnecters = {} PROVE Spec => ImplementsDecisions
<1>1. ASSUME Init PROVE Decisions!DecisionsInit
  BY <1>1 DEF Init, Asks, Decisions!DecisionsInit
<1> QED
  BY <1>1, PromiseKept, PromiseInvariant, TypeCorrect, PTL
     DEF Spec, ImplementsDecisions, Decisions!DecisionsSpec

-----------------------------------------------------------------------------
(* Timers, with any ids and reconnects.                                    *)

(* A timer runs for the pending asks that were sent with a timeout, and for *)
(* no other: not for an ask that took over the id of a resolved one.        *)
TimersFollow == \A c \in Ids : c \in timers <=> entries[c] \in timed

TimerInv == TimersFollow /\ WaitingAsks

(* An ask that has a timeout is resolved, or pending with its timer set; and *)
(* its request() call has returned, or awaits its UI ask, which has a timer  *)
(* of its own.                                                               *)
TimedAskIsWatched ==
  \A n \in timed :
    /\ n \in Resolved \/ (n \in Pending /\ idOf[n] \in timers)
    /\ returned[n] # "waiting" \/ (asking[n] = n /\ ui[n] # "none")

LEMMA DropStopsTimer ==
  ASSUME TypeOK, TimersFollow, NEW n \in Made, NEW v, Drop(n, v), UNCHANGED timed
  PROVE  TimersFollow'
<1>1. NoAsk \notin timed
  BY MadeTypes, AskTypes DEF TypeOK
<1> QED BY <1>1, MadeTypes DEF Drop, TimersFollow, TypeOK

LEMMA RequestWatches ==
  ASSUME TypeOK, TimerInv, NEW c \in Ids, NEW hasTimeout \in BOOLEAN, Request(c, hasTimeout)
  PROVE  TimerInv'
<1>1. PICK n \in Asks : n = Len(idOf) + 1 /\ n \notin Made /\ Made' = Made \cup {n}
  BY RequestMakes
<1>2. /\ entries[c] = NoAsk /\ entries' = [entries EXCEPT ![c] = n]
      /\ timed' = (IF hasTimeout THEN timed \cup {n} ELSE timed)
      /\ timers' = (IF hasTimeout THEN timers \cup {c} ELSE timers)
  BY <1>1 DEF Request, MayRequest
<1>3. timed \subseteq Made /\ n \in Callers /\ NoAsk \notin timed
  BY MadeTypes, AskTypes DEF TypeOK
<1>4. TimersFollow'
  <2>1. c \notin timers
    BY <1>2, <1>3 DEF TimerInv, TimersFollow
  <2>2. ASSUME NEW d \in Ids PROVE d \in timers' <=> entries'[d] \in timed'
    <3>1. CASE d = c
      <4>1. entries'[c] = n
        BY <1>2 DEF TypeOK
      <4>2. n \notin timed
        BY <1>1, <1>3
      <4> QED BY <1>2, <2>1, <3>1, <4>1, <4>2
    <3>2. CASE d # c
      <4>1. entries'[d] = entries[d] /\ entries[d] # n
        BY <1>1, <1>2, <3>2, AskTypes DEF TypeOK
      <4> QED BY <1>2, <3>2, <4>1 DEF TimerInv, TimersFollow
    <3> QED BY <3>1, <3>2
  <2> QED BY <2>2 DEF TimersFollow
<1>5. \/ /\ asking' = [asking EXCEPT ![n] = n] /\ returned' = returned
      \/ /\ asking' = asking /\ returned' = [returned EXCEPT ![n] = FirstInHistory(c)]
  BY <1>1 DEF Request
<1>6. FirstInHistory(c) # "waiting"
  BY FoundTypes, VerdictTypes
<1>7. WaitingAsks'
  <2>1. ASSUME NEW m \in Made', returned'[m] = "waiting" PROVE asking'[m] = m
    <3>1. m \in Asks /\ m \in Callers /\ (m # n => m \in Made)
      BY <1>1, <2>1, MadeTypes, AskTypes
    <3> QED BY <1>3, <1>5, <1>6, <2>1, <3>1 DEF TimerInv, WaitingAsks, TypeOK
  <2> QED BY <2>1 DEF WaitingAsks
<1> QED BY <1>4, <1>7 DEF TimerInv

LEMMA TimerStep ==
  ASSUME TypeOK, TimerInv, [Next]_vars
  PROVE  TimerInv'
<1>0. /\ \A c \in Ids : entries[c] # NoAsk => entries[c] \in Made
      /\ \A k \in Callers : ui[k] \in Settled => asking[k] \in Made
      /\ UiReplies \subseteq Settled /\ "rejected" \in Settled
      /\ Asks \subseteq Callers /\ Reconnecters \subseteq Callers
      /\ Made \subseteq Asks
  BY AskTypes, MadeTypes DEF TypeOK, Settled, UiReplies
<1>1. ASSUME UNCHANGED <<idOf, timed, entries, timers>> PROVE TimersFollow'
  BY <1>1 DEF TimerInv, TimersFollow
<1>2. ASSUME UNCHANGED <<idOf, returned>>, \A n \in Asks : asking'[n] = asking[n]
      PROVE  WaitingAsks'
  BY <1>0, <1>2 DEF TimerInv, WaitingAsks, Made
\* A request() call returns.
<1>3. ASSUME NEW n \in Asks, NEW v, v # "waiting", asking' = [asking EXCEPT ![n] = NoAsk],
             returned' = [returned EXCEPT ![n] = v], idOf' = idOf
      PROVE  WaitingAsks'
  BY <1>0, <1>3 DEF TimerInv, WaitingAsks, Made, TypeOK
<1>4. ASSUME NEW s \in Sessions, NEW c \in Ids, NEW v \in ClientVerdicts, Resolve(s, c, v)
      PROVE  TimerInv'
  BY <1>0, <1>2, <1>4, DropStopsTimer DEF Resolve, TimerInv
<1>5. ASSUME NEW c \in Ids, Timeout(c) PROVE TimerInv'
  BY <1>0, <1>2, <1>5, DropStopsTimer DEF Timeout, TimerInv
\* reconnect() awaits nothing in the name of an ask.
<1>6. ASSUME NEW r \in Reconnecters, NEW ahead, NEW uis, NEW ids, ServeNext(r, ahead, uis, ids)
      PROVE  \A n \in Asks : asking'[n] = asking[n]
  BY <1>6, AskTypes DEF ServeNext, TypeOK
<1>7. ASSUME NEW r \in Reconnecters, NEW s \in Sessions, Reconnect(r, s) PROVE TimerInv'
  BY <1>1, <1>2, <1>6, <1>7 DEF Reconnect, TimerInv
<1>8. ASSUME SessionStep \/ \E k \in Callers : UiTimeout(k) PROVE TimerInv'
  <2>1. UNCHANGED <<idOf, timed, entries, timers, asking, returned>>
    BY <1>8 DEF SessionStep, Answer, CloseSession, ResumeSession, UiTimeout
  <2> QED BY <1>1, <1>2, <2>1 DEF TimerInv
<1>9. ASSUME NEW n \in Asks, RequestDecided(n) PROVE TimerInv'
  <2>1. n \in Made
    <3>1. ui[n] \in Settled /\ n \in Callers
      BY <1>0, <1>9 DEF RequestDecided
    <3>2. asking[n] \in Made /\ NoAsk \notin Made
      BY <1>0, <3>1, AskTypes
    <3>3. asking[n] \in {NoAsk, n}
      BY DEF TypeOK
    <3> QED BY <3>2, <3>3
  <2>2. PICK v \in Verdicts : v = MapUiReply(ui[n])
    BY ReplyTypes
  <2>3. Drop(n, v) /\ UNCHANGED <<idOf, timed>> /\ asking' = [asking EXCEPT ![n] = NoAsk]
        /\ returned' = [returned EXCEPT ![n] = v] /\ v # "waiting"
    BY <1>9, <2>2, VerdictTypes DEF RequestDecided
  <2> QED BY <1>3, <2>1, <2>3, DropStopsTimer DEF TimerInv
<1>10. ASSUME NEW n \in Asks, RequestOvertaken(n) PROVE TimerInv'
  <2>1. FirstInHistory(idOf[n]) # "waiting"
    BY FoundTypes, VerdictTypes
  <2> QED BY <1>1, <1>3, <1>10, <2>1 DEF RequestOvertaken, TimerInv
<1>11. ASSUME NEW r \in Reconnecters, ReconnectDecided(r) PROVE TimerInv'
  <2>1. asking[r] \in Made
    BY <1>0, <1>11 DEF ReconnectDecided
  <2>2. /\ Drop(asking[r], MapUiReply(ui[r])) /\ UNCHANGED <<idOf, timed, returned>>
        /\ \E ahead, uis, ids : ServeNext(r, ahead, uis, ids)
    BY <1>11 DEF ReconnectDecided
  <2> QED BY <1>2, <1>6, <2>1, <2>2, DropStopsTimer DEF TimerInv
<1>12. ASSUME NEW r \in Reconnecters, ReconnectUndecided(r) PROVE TimerInv'
  BY <1>1, <1>2, <1>6, <1>12 DEF ReconnectUndecided, TimerInv
<1>13. CASE UNCHANGED vars
  BY <1>1, <1>2, <1>13 DEF vars, TimerInv
<1> QED BY <1>4, <1>5, <1>7, <1>8, <1>9, <1>10, <1>11, <1>12, <1>13, RequestWatches
        DEF TimerInv, Next, Calls, Timers, Continuation

LEMMA TimerInvariant == Spec => []TimerInv
<1>1. Init => TimerInv
  <2> SUFFICES ASSUME Init PROVE TimerInv
    OBVIOUS
  <2>1. Made = {}
    BY DEF Init, Made
  <2> QED BY <2>1 DEF Init, TimerInv, TimersFollow, WaitingAsks
<1>2. TypeOK /\ TimerInv /\ [Next]_vars => TimerInv'
  BY TimerStep
<1> QED BY <1>1, <1>2, TypeCorrect, PTL DEF Spec

(* The broker's timer lives as long as the ask it was set for              *)
(* (broker.ts:78-79, 106): no ask is timed out by the timer of an        *)
(* earlier one that had its id, and none with a timeout is left without.    *)
THEOREM TimersFollowAsks == Spec => []TimersFollow
<1>1. TimerInv => TimersFollow
  BY DEF TimerInv
<1> QED BY <1>1, TimerInvariant, PTL

(* What TimedAskIsServed says of states: whoever resolves, reconnects,      *)
(* closes or resumes, an ask with a timeout has what will resolve it.       *)
THEOREM TimedAsksAreWatched == ASSUME Reusable = {} PROVE Spec => []TimedAskIsWatched
<1>1. TypeOK /\ ConsentInv /\ TimerInv => TimedAskIsWatched
  <2> SUFFICES ASSUME TypeOK, ConsentInv, TimerInv, NEW n \in timed
               PROVE  /\ n \in Resolved \/ (n \in Pending /\ idOf[n] \in timers)
                      /\ returned[n] # "waiting" \/ (asking[n] = n /\ ui[n] # "none")
    BY DEF TimedAskIsWatched
  <2>1. n \in Made /\ n \in Callers /\ idOf[n] \in Ids /\ n # NoAsk
    BY MadeTypes, AskTypes DEF TypeOK
  <2>2. n \in Resolved \/ (n \in Pending /\ idOf[n] \in timers)
    BY <2>1 DEF ConsentInv, PendingOrResolved, Pending, TimerInv, TimersFollow
  <2> QED BY <2>1, <2>2 DEF TimerInv, WaitingAsks, TypeOK
<1> QED BY <1>1, TypeCorrect, ConsentInvariant, TimerInvariant, PTL
=============================================================================
