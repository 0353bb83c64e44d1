--------------------------- MODULE ApprovalBroker ---------------------------
(***************************************************************************)
(* The daemon's approval broker (apps/daemon/src/approval/broker.ts) and    *)
(* the Pi sessions it asks (apps/daemon/src/pi/session.ts), composed as     *)
(* index.ts wires them.                                                     *)
(*                                                                          *)
(* A request is an ask, numbered in the order the calls of request() come;  *)
(* Map iteration follows the same order.  A caller is whoever awaits        *)
(* adapter.ask(): the request() call of an ask, or a reconnect() call.  A   *)
(* caller awaits at most one extension-UI ask at a time, so the UI ask is   *)
(* named by its caller instead of by the UUID the code draws.               *)
(*                                                                          *)
(* One action is one run of the event loop's macrotask up to the point      *)
(* where it awaits, or the continuation that a settled UI ask makes due.    *)
(* Continuations are microtasks: nothing else runs before them (Quiet).     *)
(***************************************************************************)
EXTENDS Naturals, Sequences

CONSTANTS
    Ids,            \* correlation ids
    Sessions,       \* Pi sessions
    Owner,          \* the session each correlation id is bound to
    Reusable,       \* ids a client may send again once their ask is resolved
    MaxRequests,    \* bound on request() calls
    Reconnecters    \* reconnect() calls in progress at one time

ASSUME OwnerAssumption == Owner \in [Ids -> Sessions]
ASSUME ReusableAssumption == Reusable \subseteq Ids
ASSUME MaxRequestsAssumption == MaxRequests \in Nat
ASSUME ReconnectersAssumption == Reconnecters \cap Nat = {}

Asks == 1 .. MaxRequests
Callers == Asks \cup Reconnecters
NoAsk == 0
NoCaller == 0

(* ApprovalResult.  "answer" is an allow that carries a value.             *)
Allows == {"answer", "allow"}
Verdicts == Allows \cup {"deny", "cancel", "timeout"}

(* What a client sends with approval:resolve and approval:cancel, and what *)
(* the user's extension-UI reply can be.                                   *)
ClientVerdicts == Verdicts \ {"timeout"}
UiReplies == {"value", "confirmed", "refused", "cancelled"}

(* "rejected" is the promise of a UI ask that timed out or was closed.     *)
Settled == UiReplies \cup {"rejected"}

VARIABLES
    idOf,       \* the correlation ids of the asks, in the order of the calls
    timed,      \* asks sent with a timeout
    entries,    \* correlation id -> its pending ask
    timers,     \* correlation ids with a running timer
    history,    \* resolvedHistory
    asking,     \* caller -> the ask it awaits a decision on
    ui,         \* caller -> its UI ask: "none", "open", or how it settled
    uiIds,      \* approvalUiIds: correlation id -> caller of the mapped UI ask
    live,       \* sessions in the adapter's table
    returned,   \* ask -> what its request() call returned
    given       \* ghost: the verdicts users and clients gave, per ask

vars == <<idOf, timed, entries, timers, history, asking, ui, uiIds, live, returned,
          given>>

(* mapUiReplyToApproval: only an explicit value or confirmation allows.    *)
MapUiReply(reply) ==
    CASE reply = "value" -> "answer"
      [] reply = "confirmed" -> "allow"
      [] reply = "refused" -> "deny"
      [] OTHER -> "cancel"

(* Mutant: a denial's free text is delivered as the UI ask's value.        *)
Dismissal_AnyValue(verdict) == IF verdict \in {"answer", "deny"} THEN "value" ELSE "cancelled"

(* The response completeApproval gives the UI ask it dismisses.            *)
Dismissal(verdict) == IF verdict = "answer" THEN "value" ELSE "cancelled"

(* No continuation is due.                                                 *)
Quiet == \A k \in Callers : ui[k] \notin Settled

Init ==
    /\ idOf = <<>>
    /\ timed = {}
    /\ entries = [c \in Ids |-> NoAsk]
    /\ timers = {}
    /\ history = <<>>
    /\ asking = [k \in Callers |-> NoAsk]
    /\ ui = [k \in Callers |-> "none"]
    /\ uiIds = [c \in Ids |-> NoCaller]
    /\ live = Sessions
    /\ returned = [n \in Asks |-> "waiting"]
    /\ given = {}

(***************************************************************************)
(* The broker's drop().  UI asks and their ids are passed in because a      *)
(* continuation has already changed them when it drops.                     *)
(***************************************************************************)
Entry(n, verdict) == [ask |-> n, verdict |-> verdict]

(* entries.delete, clearTimer and resolvedHistory.push: all but the push   *)
(* go by correlation id, whichever ask holds it.                           *)
Drop(n, verdict) ==
    /\ entries' = [entries EXCEPT ![idOf[n]] = NoAsk]
    /\ timers' = timers \ {idOf[n]}
    /\ history' = Append(history, Entry(n, verdict))

(* Mutant: the mapped UI ask stays open.                                   *)
Dismissed_Never(uis, ids, c, verdict) == uis

(* completeApproval: dismiss the UI ask mapped to the id, if it is open.   *)
Dismissed(uis, ids, c, verdict) ==
    IF ids[c] # NoCaller /\ uis[ids[c]] = "open"
    THEN [uis EXCEPT ![ids[c]] = Dismissal(verdict)]
    ELSE uis

Complete(uis, ids, n, verdict) ==
    /\ ui' = Dismissed(uis, ids, idOf[n], verdict)
    /\ uiIds' = [ids EXCEPT ![idOf[n]] = NoCaller]

Found(c) == {i \in DOMAIN history : idOf[history[i].ask] = c}
First(items) == CHOOSE i \in items : \A j \in items : i <= j

(* Mutant: the last item instead of the first.                             *)
FirstInHistory_Last(c) ==
    IF Found(c) = {} THEN "pending"
    ELSE history[CHOOSE i \in Found(c) : \A j \in Found(c) : j <= i].verdict

(* What request() returns when it did not drop its entry itself: the first *)
(* item of the history with its correlation id, or the pending view.       *)
FirstInHistory(c) ==
    IF Found(c) = {} THEN "pending" ELSE history[First(Found(c))].verdict

(***************************************************************************)
(* Calls that reach the broker and its timers                               *)
(***************************************************************************)
(* The duplicate check sees pending asks only.  Ids outside Reusable are   *)
(* the UUIDs that native asks draw.                                        *)
MayRequest(c) ==
    /\ entries[c] = NoAsk
    /\ c \in Reusable \/ \A n \in DOMAIN idOf : idOf[n] # c

(* request() up to its await; with no live session ask() returns null and  *)
(* the call returns in the same turn.                                      *)
Request(c, hasTimeout) ==
    LET n == Len(idOf) + 1 IN
    /\ Quiet /\ n \in Asks /\ MayRequest(c)
    /\ idOf' = Append(idOf, c)
    /\ entries' = [entries EXCEPT ![c] = n]
    /\ timed' = IF hasTimeout THEN timed \cup {n} ELSE timed
    /\ timers' = IF hasTimeout THEN timers \cup {c} ELSE timers
    /\ \/ /\ Owner[c] \in live
          /\ asking' = [asking EXCEPT ![n] = n]
          /\ ui' = [ui EXCEPT ![n] = "open"]
          /\ uiIds' = [uiIds EXCEPT ![c] = n]
          /\ UNCHANGED returned
       \/ /\ Owner[c] \notin live
          /\ returned' = [returned EXCEPT ![n] = FirstInHistory(c)]
          /\ UNCHANGED <<asking, ui, uiIds>>
    /\ UNCHANGED <<history, live, given>>

(* approval:resolve and approval:cancel from session s.                    *)
Resolve(s, c, verdict) ==
    /\ Quiet /\ entries[c] # NoAsk /\ Owner[c] = s
    /\ given' = given \cup {Entry(entries[c], verdict)}
    /\ Drop(entries[c], verdict)
    /\ Complete(ui, uiIds, entries[c], verdict)
    /\ UNCHANGED <<idOf, timed, asking, live, returned>>

Timeout(c) ==
    /\ Quiet /\ c \in timers /\ entries[c] # NoAsk
    /\ Drop(entries[c], "timeout")
    /\ Complete(ui, uiIds, entries[c], "timeout")
    /\ UNCHANGED <<idOf, timed, asking, live, returned, given>>

(* The session's pending asks that the live iteration of reconnect() still *)
(* has to visit after ask n; the next one is asked, none ends the call.    *)
Ahead(pending, s, n) ==
    {m \in Asks : n < m /\ \E c \in Ids : pending[c] = m /\ Owner[c] = s}

ServeNext(r, ahead, uis, ids) ==
    LET n == First(ahead) IN
    IF ahead = {}
    THEN /\ asking' = [asking EXCEPT ![r] = NoAsk]
         /\ ui' = uis
         /\ uiIds' = ids
    ELSE /\ asking' = [asking EXCEPT ![r] = n]
         /\ ui' = [uis EXCEPT ![r] = "open"]
         /\ uiIds' = [ids EXCEPT ![idOf[n]] = r]

Reconnect(r, s) ==
    /\ Quiet /\ asking[r] = NoAsk /\ s \in live
    /\ Ahead(entries, s, NoAsk) # {}
    /\ ServeNext(r, Ahead(entries, s, NoAsk), ui, uiIds)
    /\ UNCHANGED <<idOf, timed, entries, timers, history, live, returned, given>>

(***************************************************************************)
(* The Pi session: the user's reply, the UI ask's timer, close and resume   *)
(***************************************************************************)
Answer(k, reply) ==
    /\ Quiet /\ ui[k] = "open"
    /\ ui' = [ui EXCEPT ![k] = reply]
    /\ given' = given \cup {Entry(asking[k], MapUiReply(reply))}
    /\ UNCHANGED <<idOf, timed, entries, timers, history, asking, uiIds, live,
                   returned>>

(* The UI ask's timer has the length of the broker's and is set after it,  *)
(* so it fires after the broker's has fired or been cleared.               *)
BrokerTimerRuns(n) == entries[idOf[n]] = n /\ idOf[n] \in timers

(* Mutant: only the UI ask the session has mapped is timed out.            *)
UiTimeout_MappedOnly(k) ==
    /\ Quiet /\ ui[k] = "open" /\ asking[k] \in timed
    /\ ~BrokerTimerRuns(asking[k]) /\ uiIds[idOf[asking[k]]] = k
    /\ ui' = [ui EXCEPT ![k] = "rejected"]
    /\ UNCHANGED <<idOf, timed, entries, timers, history, asking, uiIds, live,
                   returned, given>>

UiTimeout(k) ==
    /\ Quiet /\ ui[k] = "open" /\ asking[k] \in timed
    /\ ~BrokerTimerRuns(asking[k])
    /\ ui' = [ui EXCEPT ![k] = "rejected"]
    /\ UNCHANGED <<idOf, timed, entries, timers, history, asking, uiIds, live,
                   returned, given>>

(* close() rejects every UI ask and takes the session, and with it its map *)
(* of UI ids, out of the adapter's table; entries of the broker stay.      *)
CloseSession(s) ==
    /\ Quiet /\ s \in live
    /\ live' = live \ {s}
    /\ ui' = [k \in Callers |-> IF ui[k] = "open" /\ Owner[idOf[asking[k]]] = s
                                THEN "rejected" ELSE ui[k]]
    /\ uiIds' = [c \in Ids |-> IF Owner[c] = s THEN NoCaller ELSE uiIds[c]]
    /\ UNCHANGED <<idOf, timed, entries, timers, history, asking, returned, given>>

ResumeSession(s) ==
    /\ Quiet /\ s \notin live
    /\ live' = live \cup {s}
    /\ UNCHANGED <<idOf, timed, entries, timers, history, asking, ui, uiIds,
                   returned, given>>

(***************************************************************************)
(* Continuations.  askApproval's finally unmaps the id first, also when a   *)
(* later ask of the same entry has mapped it since.                         *)
(***************************************************************************)
Freed(k) == [ui EXCEPT ![k] = "none"]
Unmapped(k) == [uiIds EXCEPT ![idOf[asking[k]]] = NoCaller]

(* Mutant: the entry is not compared with the pending one.                 *)
RequestDecided_NoCheck(n) ==
    LET verdict == MapUiReply(ui[n]) IN
    /\ ui[n] \in UiReplies
    /\ Drop(n, verdict)
    /\ Complete(Freed(n), Unmapped(n), n, verdict)
    /\ asking' = [asking EXCEPT ![n] = NoAsk]
    /\ returned' = [returned EXCEPT ![n] = verdict]
    /\ UNCHANGED <<idOf, timed, live, given>>

(* request() resumes with a decision, and its entry is still the one.      *)
RequestDecided(n) ==
    LET verdict == MapUiReply(ui[n]) IN
    /\ ui[n] \in UiReplies /\ entries[idOf[n]] = n
    /\ Drop(n, verdict)
    /\ Complete(Freed(n), Unmapped(n), n, verdict)
    /\ asking' = [asking EXCEPT ![n] = NoAsk]
    /\ returned' = [returned EXCEPT ![n] = verdict]
    /\ UNCHANGED <<idOf, timed, live, given>>

(* It resumes with no decision, or finds its entry resolved meanwhile.     *)
RequestOvertaken(n) ==
    /\ ui[n] \in Settled
    /\ ui[n] = "rejected" \/ entries[idOf[n]] # n
    /\ ui' = Freed(n)
    /\ uiIds' = Unmapped(n)
    /\ asking' = [asking EXCEPT ![n] = NoAsk]
    /\ returned' = [returned EXCEPT ![n] = FirstInHistory(idOf[n])]
    /\ UNCHANGED <<idOf, timed, entries, timers, history, live, given>>

(* The session's asks from n on, if the session can still be asked.        *)
Remaining(pending, n) ==
    IF Owner[idOf[n]] \in live THEN Ahead(pending, Owner[idOf[n]], n) ELSE {}

(* reconnect() resumes with a decision: it drops without looking whether   *)
(* the ask is still pending, and goes on to the next one.                  *)
ReconnectDecided(r) ==
    LET n == asking[r]
        verdict == MapUiReply(ui[r]) IN
    /\ ui[r] \in UiReplies
    /\ Drop(n, verdict)
    /\ ServeNext(r, Remaining(entries', n),
                 Dismissed(Freed(r), Unmapped(r), idOf[n], verdict), Unmapped(r))
    /\ UNCHANGED <<idOf, timed, live, returned, given>>

ReconnectUndecided(r) ==
    /\ ui[r] = "rejected"
    /\ ServeNext(r, Remaining(entries, asking[r]), Freed(r), Unmapped(r))
    /\ UNCHANGED <<idOf, timed, entries, timers, history, live, returned, given>>

Calls ==
    \/ \E c \in Ids, hasTimeout \in BOOLEAN : Request(c, hasTimeout)
    \/ \E s \in Sessions, c \in Ids, verdict \in ClientVerdicts : Resolve(s, c, verdict)
    \/ \E r \in Reconnecters, s \in Sessions : Reconnect(r, s)

Timers ==
    \/ \E c \in Ids : Timeout(c)
    \/ \E k \in Callers : UiTimeout(k)

SessionStep ==
    \/ \E k \in Callers, reply \in UiReplies : Answer(k, reply)
    \/ \E s \in Sessions : CloseSession(s) \/ ResumeSession(s)

Continuation ==
    \/ \E n \in Asks : RequestDecided(n) \/ RequestOvertaken(n)
    \/ \E r \in Reconnecters : ReconnectDecided(r) \/ ReconnectUndecided(r)

Next == Calls \/ Timers \/ SessionStep \/ Continuation

Spec == Init /\ [][Next]_vars

(* The event loop runs microtasks, and a timer that is due fires, however  *)
(* often other turns come in between; nobody has to answer.                *)
Fairness ==
    /\ WF_vars(Continuation)
    /\ \A c \in Ids : SF_vars(Timeout(c))
    /\ \A n \in Asks : SF_vars(UiTimeout(n))

FairSpec == Spec /\ Fairness

(***************************************************************************)
(* Properties                                                               *)
(***************************************************************************)
Made == DOMAIN idOf
Pending == {n \in Made : entries[idOf[n]] = n}
Resolved == {history[i].ask : i \in DOMAIN history}
Waiting == {n \in Made : returned[n] = "waiting"}

(* Every variable has its type; a caller awaits a decision exactly when it *)
(* has a UI ask open or just settled, and request() awaits its own ask's.  *)
TypeOK ==
    /\ idOf \in Seq(Ids) /\ Len(idOf) <= MaxRequests
    /\ timed \subseteq Made
    /\ entries \in [Ids -> {NoAsk} \cup Made]
    /\ timers \subseteq Ids
    /\ history \in Seq([ask : Made, verdict : Verdicts])
    /\ asking \in [Callers -> {NoAsk} \cup Made]
    /\ ui \in [Callers -> {"none", "open"} \cup Settled]
    /\ \A k \in Callers : ui[k] = "none" <=> asking[k] = NoAsk
    /\ \A n \in Asks : asking[n] \in {NoAsk, n}
    /\ uiIds \in [Ids -> {NoCaller} \cup Callers]
    /\ live \subseteq Sessions
    /\ returned \in [Asks -> {"waiting", "pending"} \cup Verdicts]
    /\ given \subseteq [ask : Made, verdict : Verdicts]

(* Somebody allowed ask n, and what the history has of it.                 *)
Allowed(n) == \E v \in Allows : Entry(n, v) \in given
Own(n) == {i \in DOMAIN history : history[i].ask = n}

(* broker.ts's policy "allow only ever comes from an explicit client reply *)
(* or an explicit adapter decision": whatever is recorded for, or returned *)
(* to, an ask as allowed, somebody allowed for that very ask.  A dismissal  *)
(* comes back as a decision of the UI ask, so it must not read as consent. *)
AllowWasGiven ==
    /\ \A i \in DOMAIN history :
           history[i].verdict \in Allows => Allowed(history[i].ask)
    /\ \A n \in Made : returned[n] \in Allows => Allowed(n)

(* The verdict the agent acts on is the one its ask was resolved with      *)
(* first, whatever arrives for it later (request's look into the history). *)
FirstVerdictStands ==
    \A n \in Made : returned[n] \in Verdicts =>
        Own(n) # {} /\ history[First(Own(n))].verdict = returned[n]

(* An ask as its maker sees it (ApprovalDecisions): it "resolves exactly   *)
(* once" (index.ts), with an allow only if somebody gave one, and request() *)
(* returns once, with "pending" or the outcome of an ask of its id, however *)
(* answers, client verdicts, timeouts and closing sessions interleave.     *)
Decisions == INSTANCE ApprovalDecisions
                WITH MaxAsks <- MaxRequests, Refusals <- Verdicts \ Allows,
                     asks <- idOf, said <- given, decided <- history, told <- returned

ImplementsDecisions == Decisions!DecisionsSpec

(* index.ts:78: an ask "resolves exactly once via the user's reply": none   *)
(* is recorded as resolved twice, whoever answers or resolves it again.    *)
ResolvesOnce ==
    \A i, j \in DOMAIN history : history[i].ask = history[j].ask => i = j

(* broker.ts: an unanswered request stays pending or resolves explicitly;  *)
(* no ask disappears from the pending ones without an item in the history. *)
PendingOrResolved == \A n \in Made : n \in Pending <=> n \notin Resolved

(* ApprovalAdapterSurface.complete "deliver[s] the final resolution to the *)
(* harness (dismiss its ask UI)": once an ask is resolved and the turn has *)
(* ended, no caller awaits a UI ask for it and its request() has returned. *)
ResolvedIsReleased ==
    Quiet => /\ \A k \in Callers : asking[k] \notin Resolved
             /\ Waiting \cap Resolved = {}

(* An ask sent with a timeout is resolved in the end, and its request()    *)
(* returns, also when sessions close or nobody answers.                    *)
TimedAskIsServed ==
    \A n \in Asks : n \in timed ~> n \in Resolved /\ returned[n] # "waiting"
=============================================================================
