-------------------------- MODULE EventConnection --------------------------
(***************************************************************************)
(* The browser's connection to a session's events                          *)
(* (apps/web/lib/agent-event-connection.ts): one EventSource at a time,    *)
(* shared by all who wait for it, with a deadline for its first event and  *)
(* a retry for the session that its owner wants maintained.                *)
(*                                                                         *)
(* An action is a call, an event of a source, a timer, or the continuation *)
(* of a caller whose promise has settled.  Continuations are microtasks:   *)
(* sources and timers wait for them (Quiet); calls need not, as a listener *)
(* of events may make them.                                                *)
(***************************************************************************)
EXTENDS Naturals

CONSTANTS
  Src,     \* sources (bound: how many can exist at once)
  Session, \* session ids
  Caller,  \* calls of ensureConnected() at one time (bound)
  None

ASSUME EventConnectionAssumption == None \notin Src \cup Session

VARIABLES
  demand,  \* the session for which shouldMaintain() says yes
  src,     \* readyState of a source
  of,      \* its session
  ready,   \* attempt.ready: it has sent "connected"
  attempt, \* its promise: pending, resolved, or the error it was rejected with
  current, \* this.current
  retry,   \* session of the retry timer
  call,    \* what a call waits for, and for whom
  fresh,   \* maintain()'s calls since the last stopRetrying(): retryGeneration is theirs
  kept,    \* (ghost) the session that is to be kept connected
  closed   \* (ghost) close() was called, and nothing since

conn == <<src, of, ready, attempt, current>>
vars == <<demand, conn, retry, call, fresh, kept, closed>>

Errors == {"closed", "ready_timeout", "startup_error"}

\* A call waits at a source, or its error is on the way to maintain().
Call == [phase : {"none", "waiting", "caught"}, at : Src \cup {None}, who : Session \cup {None},
         passive : BOOLEAN, error : Errors \cup {"none"}]

NoCall == [phase |-> "none", at |-> None, who |-> None, passive |-> FALSE, error |-> "none"]

TypeOK ==
  /\ demand \in Session \cup {None} /\ retry \in Session \cup {None}
  /\ kept \in Session \cup {None} /\ closed \in BOOLEAN
  /\ src \in [Src -> {"connecting", "open", "closed"}]
  /\ of \in [Src -> Session \cup {None}]
  /\ ready \in SUBSET Src
  /\ attempt \in [Src -> {"pending", "resolved"} \cup Errors]
  /\ current \in Src \cup {None}
  /\ call \in [Caller -> Call]
  /\ fresh \in SUBSET Caller

Init ==
  /\ demand = None /\ retry = None /\ kept = None /\ closed = FALSE
  /\ src = [s \in Src |-> "closed"] /\ of = [s \in Src |-> None]
  /\ ready = {} /\ attempt = [s \in Src |-> "closed"]
  /\ current = None
  /\ call = [k \in Caller |-> NoCall] /\ fresh = {}

Settling(k) == call[k].phase = "waiting" /\ attempt[call[k].at] # "pending"

\* No continuation is due.
Quiet == \A k \in Caller : call[k].phase # "caught" /\ ~Settling(k)

(***************************************************************************)
(* Retries.                                                                *)
(***************************************************************************)

\* stopRetrying(): what maintain() has under way will not retry either.
StopRetrying == retry' = None /\ fresh' = {}

\* scheduleRetry(): a timer for another session is replaced.
ScheduleRetry(sid) == retry' = IF demand = sid THEN sid ELSE retry

(***************************************************************************)
(* Sources.                                                                *)
(***************************************************************************)

\* What the promise of a source becomes: it keeps its first outcome.
Settled(s, result) == IF attempt[s] = "pending" THEN result ELSE attempt[s]

\* Mutant: a source is discarded without its promise.
Discard_Forgets(s, result) ==
  /\ src' = [src EXCEPT ![s] = "closed"]
  /\ current' = None
  /\ of' = [of EXCEPT ![s] = None]
  /\ ready' = ready \ {s}
  /\ UNCHANGED attempt

\* discard(): nothing reads the session and the readiness of a source that is not current.
Discard(s, result) ==
  /\ src' = [src EXCEPT ![s] = "closed"]
  /\ attempt' = [attempt EXCEPT ![s] = Settled(s, result)]
  /\ current' = None
  /\ of' = [of EXCEPT ![s] = None]
  /\ ready' = ready \ {s}

Unused == {s \in Src : src[s] = "closed" /\ s # current /\ \A k \in Caller : call[k].at # s}

\* Mutant: the source before is left open.
Replace_LeavesOpen(s, sid) ==
  /\ src' = [src EXCEPT ![s] = "connecting"]
  /\ attempt' = [x \in Src |-> CASE x = s -> "pending"
                                 [] x = current -> Settled(x, "closed")
                                 [] OTHER -> attempt[x]]
  /\ of' = [x \in Src |-> IF x = s THEN sid ELSE None]
  /\ ready' = {}
  /\ current' = s

\* open(): the source before is discarded.
Replace(s, sid) ==
  /\ src' = [x \in Src |-> CASE x = s -> "connecting" [] x = current -> "closed"
                             [] OTHER -> src[x]]
  /\ attempt' = [x \in Src |-> CASE x = s -> "pending"
                                 [] x = current -> Settled(x, "closed")
                                 [] OTHER -> attempt[x]]
  /\ of' = [x \in Src |-> IF x = s THEN sid ELSE None]
  /\ ready' = {}
  /\ current' = s

(***************************************************************************)
(* ensureConnected(), from the head of its loop.                           *)
(***************************************************************************)

\* k asks for a session, for maintain() or not.
Asking(sid, isPassive) == [NoCall EXCEPT !.who = sid, !.passive = isPassive]

Awaits(k, asked, s) ==
  call' = [call EXCEPT ![k] = [asked EXCEPT !.phase = "waiting", !.at = s]]

Returns(k) == call' = [call EXCEPT ![k] = NoCall]

\* The call rejects: maintain() catches it, any other caller gets it.
Throws(k, asked, e) ==
  call' = [call EXCEPT ![k] =
             IF asked.passive
             THEN [asked EXCEPT !.phase = "caught", !.at = None, !.error = e]
             ELSE NoCall]

\* A connection is opened; making its source may fail.
Open(k, asked) ==
  \/ \E s \in Unused : Replace(s, asked.who) /\ Awaits(k, asked, s)
  \/ /\ IF current = None THEN UNCHANGED conn ELSE Discard(current, "closed")
     /\ Throws(k, asked, "closed")

\* The connection to the session is joined; without one, it is opened.
Enter(k, asked) ==
  IF current # None /\ of[current] = asked.who
  THEN /\ IF current \in ready /\ src[current] = "open"
          THEN Returns(k)
          ELSE Awaits(k, asked, current)
       /\ UNCHANGED conn
  ELSE Open(k, asked)

\* ensureConnected()
EnsureConnected(k, sid) ==
  /\ call[k] = NoCall
  /\ Enter(k, Asking(sid, FALSE))
  /\ kept' = IF kept = sid THEN kept ELSE None
  /\ closed' = FALSE
  /\ UNCHANGED <<demand, retry, fresh>>

\* maintain(), for a session that its owner wants.
Maintain(k, sid) ==
  /\ demand = sid /\ call[k] = NoCall
  /\ Enter(k, Asking(sid, TRUE))
  /\ fresh' = IF call'[k] = NoCall THEN fresh ELSE fresh \cup {k}
  /\ UNCHANGED demand

\* Its owner calls maintain().
MaintainCalled(k, sid) ==
  /\ Maintain(k, sid)
  /\ kept' = sid /\ closed' = FALSE
  /\ UNCHANGED retry

\* The retry timer fires.
RetryFires(k) ==
  /\ Quiet /\ retry # None
  /\ retry' = None
  /\ IF demand = retry
     THEN Maintain(k, retry)
     ELSE UNCHANGED <<demand, conn, call, fresh>>
  /\ UNCHANGED <<kept, closed>>

\* The promise that k waits for has settled.  A waiter whose source was replaced goes round the
\* loop; so does one whose source has lost its connection since it was ready.
Resumed(k) ==
  /\ Settling(k)
  /\ LET s == call[k].at IN
     CASE attempt[s] \in Errors -> Throws(k, call[k], attempt[s]) /\ UNCHANGED conn
       [] attempt[s] = "resolved" /\ current # s ->
            IF current # None /\ of[current] = call[k].who
            THEN Enter(k, call[k])
            ELSE Throws(k, call[k], "closed") /\ UNCHANGED conn
       [] attempt[s] = "resolved" /\ current = s /\ src[s] = "open" ->
            Returns(k) /\ UNCHANGED conn
       [] OTHER -> Open(k, call[k])
  /\ fresh' = IF call'[k] = NoCall THEN fresh \ {k} ELSE fresh
  /\ kept' = IF current # None /\ current' = None /\ ~call[k].passive THEN None ELSE kept
  /\ UNCHANGED <<demand, retry, closed>>

\* Mutant: the generation is not compared.
Caught_AnyGeneration(k) ==
  /\ call[k].phase = "caught"
  /\ Returns(k)
  /\ IF call[k].error = "startup_error"
     THEN StopRetrying
     ELSE ScheduleRetry(call[k].who) /\ fresh' = fresh \ {k}
  /\ UNCHANGED <<demand, conn, kept, closed>>

\* The catch of maintain().
Caught(k) ==
  /\ call[k].phase = "caught"
  /\ Returns(k)
  /\ CASE k \notin fresh -> UNCHANGED <<retry, fresh>>
       [] k \in fresh /\ call[k].error = "startup_error" -> StopRetrying
       [] OTHER -> ScheduleRetry(call[k].who) /\ fresh' = fresh \ {k}
  /\ UNCHANGED <<demand, conn, kept, closed>>

(***************************************************************************)
(* Events of sources, and timers.                                          *)
(***************************************************************************)

SourceOpens(s) ==
  /\ Quiet /\ src[s] = "connecting"
  /\ src' = [src EXCEPT ![s] = "open"]
  /\ UNCHANGED <<demand, of, ready, attempt, current, retry, call, fresh, kept, closed>>

\* A source loses its connection and has not told yet.
SourceDrops(s) ==
  /\ Quiet /\ src[s] = "open"
  /\ src' = [src EXCEPT ![s] = "connecting"]
  /\ UNCHANGED <<demand, of, ready, attempt, current, retry, call, fresh, kept, closed>>

\* The event "connected".
Connected(s) ==
  /\ Quiet /\ current = s /\ src[s] = "open"
  /\ ready' = ready \cup {s}
  /\ attempt' = [attempt EXCEPT ![s] = Settled(s, "resolved")]
  /\ StopRetrying
  /\ UNCHANGED <<demand, src, of, current, call, kept, closed>>

\* The event "startup_error".
StartupError(s) ==
  /\ Quiet /\ current = s /\ src[s] = "open"
  /\ Discard(s, "startup_error")
  /\ StopRetrying
  /\ kept' = None
  /\ UNCHANGED <<demand, call, closed>>

\* Mutant: only the deadline is followed by a retry.
Fail_NoRetry(s, e) ==
  /\ current = s
  /\ Discard(s, e)
  /\ IF e = "ready_timeout" THEN ScheduleRetry(of[s]) ELSE UNCHANGED retry
  /\ UNCHANGED <<demand, call, fresh, kept, closed>>

\* fail(), for a source that broke or was late.
Fail(s, e) ==
  /\ current = s
  /\ Discard(s, e)
  /\ ScheduleRetry(of[s])
  /\ UNCHANGED <<demand, call, fresh, kept, closed>>

\* onerror
SourceFails(s) == Quiet /\ Fail(s, "closed")

\* The deadline of the first event passes.
ReadyTimeout(s) == Quiet /\ attempt[s] = "pending" /\ Fail(s, "ready_timeout")

(***************************************************************************)
(* The owner.                                                              *)
(***************************************************************************)

\* close()
Close ==
  /\ StopRetrying
  /\ IF current = None THEN UNCHANGED conn ELSE Discard(current, "closed")
  /\ kept' = None /\ closed' = TRUE
  /\ UNCHANGED <<demand, call>>

\* The owner's wishes change: it calls maintain() for what it wants now.
DemandChanges(sid) ==
  /\ demand # sid
  /\ demand' = sid
  /\ kept' = None
  /\ UNCHANGED <<conn, retry, call, fresh, closed>>

-----------------------------------------------------------------------------

Next ==
  \/ Close
  \/ \E sid \in Session \cup {None} : DemandChanges(sid)
  \/ \E k \in Caller : \/ RetryFires(k) \/ Resumed(k) \/ Caught(k)
                       \/ \E sid \in Session : EnsureConnected(k, sid) \/ MaintainCalled(k, sid)
  \/ \E s \in Src : \/ SourceOpens(s) \/ SourceDrops(s) \/ Connected(s) \/ StartupError(s)
                    \/ SourceFails(s) \/ ReadyTimeout(s)

Spec == Init /\ [][Next]_vars

Fairness ==
  /\ \A k \in Caller : WF_vars(Resumed(k)) /\ WF_vars(Caught(k))
  /\ \A s \in Src : SF_vars(ReadyTimeout(s))

FairSpec == Spec /\ Fairness

(***************************************************************************)
(* Properties.                                                             *)
(***************************************************************************)

\* At most one source is not closed, the current one (agent-event-connection.ts:98-99, 174-178): a
\* page never has two streams of events.
OneStream == \A s \in Src : src[s] # "closed" => s = current

\* Once it is closed, and until it is called again, no source is open and no retry is set: an
\* error that was on its way to maintain() revives nothing (agent-event-connection.ts:55-64).
ClosedStaysClosed == closed => current = None /\ retry = None

\* A session that its owner has asked to maintain, and still wants, has a source or a retry
\* (agent-event-connection.ts:60-72, 167-191), through failures, deadlines and other callers: the
\* chat does not fall silent.  It may after a startup error, a close(), a call for another session,
\* and when a source cannot be made for a caller who asked for itself.
DemandIsMet ==
  Quiet /\ kept # None => retry = kept \/ (current # None /\ of[current] = kept)

\* ensureConnected() never leaves its caller waiting, whatever sources do and others call
\* (agent-event-connection.ts:74-96): a source that is discarded settles its promise, and one that
\* says nothing meets its deadline.
EveryCallReturns == \A k \in Caller : call[k] # NoCall ~> call[k] = NoCall

=============================================================================
