---------------------------- MODULE EventProofs -----------------------------
(***************************************************************************)
(* Theorems about the browser's event connection, for any number of        *)
(* sources, sessions and callers: its types, that one stream is open, what *)
(* close() leaves and a session that is wanted has, and that nobody waits  *)
(* for a source that was discarded.                                        *)
(***************************************************************************)
EXTENDS EventConnection, TLAPS

-----------------------------------------------------------------------------
(* What the helpers do.                                                    *)

(* What a call becomes.                                                    *)
LEMMA CallTypes ==
  /\ NoCall \in Call /\ NoCall.phase = "none" /\ NoCall.at = None
  /\ \A sid \in Session, p \in BOOLEAN :
       /\ Asking(sid, p) \in Call
       /\ Asking(sid, p).phase = "none" /\ Asking(sid, p).who = sid
       /\ Asking(sid, p).passive = p /\ Asking(sid, p).error = "none"
BY DEF NoCall, Call, Asking

LEMMA AwaitTypes ==
  ASSUME NEW asked \in Call, NEW s \in Src
  PROVE  LET w == [asked EXCEPT !.phase = "waiting", !.at = s]
         IN  /\ w \in Call /\ w.phase = "waiting" /\ w.at = s /\ w.who = asked.who
             /\ w.passive = asked.passive /\ w.error = asked.error
BY DEF Call

LEMMA ThrowTypes ==
  ASSUME NEW asked \in Call, NEW e \in Errors
  PROVE  LET w == [asked EXCEPT !.phase = "caught", !.at = None, !.error = e]
         IN  /\ w \in Call /\ w.phase = "caught" /\ w.at = None /\ w.who = asked.who
             /\ w.passive = asked.passive /\ w.error = e
BY DEF Call

\* A new source s is the current one; what the others were is settled.
Opened(s, sid) ==
  /\ s \in Src /\ current' = s /\ of'[s] = sid /\ attempt'[s] = "pending"
  /\ src'[s] = "connecting"
  /\ \A k \in Caller : call[k].at # s
  /\ \A x \in Src \ {s} :
       /\ attempt'[x] # "startup_error" \/ attempt[x] = "startup_error"
       /\ attempt[x] \in Errors => attempt'[x] = attempt[x]
       /\ src'[x] = IF x = current THEN "closed" ELSE src[x]

\* No source is current any more.
Dropped(e) ==
  /\ current' = None
  /\ \A x \in Src :
       /\ attempt'[x] = IF x = current /\ attempt[x] = "pending" THEN e ELSE attempt[x]
       /\ src'[x] = IF x = current THEN "closed" ELSE src[x]

ConnTypes ==
  /\ src \in [Src -> {"connecting", "open", "closed"}]
  /\ of \in [Src -> Session \cup {None}]
  /\ ready \in SUBSET Src
  /\ attempt \in [Src -> {"pending", "resolved"} \cup Errors]
  /\ current \in Src \cup {None}

LEMMA ReplaceFacts ==
  ASSUME TypeOK, NEW s \in Unused, NEW sid \in Session, Replace(s, sid)
  PROVE  Opened(s, sid) /\ ConnTypes'
<1>1. s \in Src /\ s # current /\ \A k \in Caller : call[k].at # s
  BY DEF Unused
<1>2. ConnTypes'
  <2>1. src' \in [Src -> {"connecting", "open", "closed"}]
    BY DEF Replace, TypeOK
  <2>2. of' \in [Src -> Session \cup {None}]
    BY DEF Replace
  <2>3. attempt' \in [Src -> {"pending", "resolved"} \cup Errors]
    BY DEF Replace, Settled, Errors, TypeOK
  <2> QED BY <1>1, <2>1, <2>2, <2>3 DEF ConnTypes, Replace
<1>3. ASSUME NEW x \in Src \ {s}
      PROVE  /\ attempt'[x] # "startup_error" \/ attempt[x] = "startup_error"
             /\ attempt[x] \in Errors => attempt'[x] = attempt[x]
             /\ src'[x] = IF x = current THEN "closed" ELSE src[x]
  BY <1>3 DEF Replace, Settled, Errors
<1>4. of'[s] = sid /\ attempt'[s] = "pending" /\ src'[s] = "connecting" /\ current' = s
  BY <1>1 DEF Replace
<1> QED BY <1>1, <1>2, <1>3, <1>4 DEF Opened

LEMMA DiscardFacts ==
  ASSUME TypeOK, NEW s \in Src, NEW e \in Errors, Discard(s, e), s = current
  PROVE  Dropped(e) /\ ConnTypes'
<1>1. ConnTypes'
  <2>1. Settled(s, e) \in {"pending", "resolved"} \cup Errors
    BY DEF Settled, TypeOK
  <2>2. attempt' \in [Src -> {"pending", "resolved"} \cup Errors]
    BY <2>1 DEF Discard, TypeOK
  <2> QED BY <2>2 DEF Discard, ConnTypes, TypeOK
<1>2. \A x \in Src :
        /\ attempt'[x] = IF x = current /\ attempt[x] = "pending" THEN e ELSE attempt[x]
        /\ src'[x] = IF x = current THEN "closed" ELSE src[x]
  BY DEF Discard, Settled, TypeOK
<1> QED BY <1>1, <1>2 DEF Dropped, Discard

LEMMA NothingDropped ==
  ASSUME TypeOK, current = None, UNCHANGED conn
  PROVE  Dropped("closed") /\ ConnTypes'
<1>1. \A x \in Src : x # current
  BY EventConnectionAssumption
<1> QED BY <1>1 DEF ConnTypes, Dropped, conn, TypeOK

(* A call opens a source and awaits it, or rejects and has none.           *)
LEMMA OpenFacts ==
  ASSUME TypeOK, NEW k \in Caller, NEW asked \in Call, asked.who \in Session, Open(k, asked)
  PROVE  /\ ConnTypes'
         /\ \/ \E s \in Src : Opened(s, asked.who) /\ Awaits(k, asked, s)
            \/ Dropped("closed") /\ Throws(k, asked, "closed")
<1>1. ASSUME NEW s \in Unused, Replace(s, asked.who), Awaits(k, asked, s)
      PROVE  ConnTypes' /\ \E x \in Src : Opened(x, asked.who) /\ Awaits(k, asked, x)
  BY <1>1, ReplaceFacts DEF Unused
<1>2. ASSUME current = None, UNCHANGED conn, Throws(k, asked, "closed")
      PROVE  ConnTypes' /\ Dropped("closed") /\ Throws(k, asked, "closed")
  BY <1>2, NothingDropped
<1>3. ASSUME current # None, Discard(current, "closed"), Throws(k, asked, "closed")
      PROVE  ConnTypes' /\ Dropped("closed") /\ Throws(k, asked, "closed")
  <2>1. current \in Src /\ "closed" \in Errors
    BY <1>3 DEF TypeOK, Errors
  <2> QED BY <1>3, <2>1, DiscardFacts
<1> QED BY <1>1, <1>2, <1>3 DEF Open

\* What a call becomes.
IsWaiting(c, asked, s) ==
  /\ c.phase = "waiting" /\ c.at = s /\ c.who = asked.who
  /\ c.passive = asked.passive /\ c.error = asked.error

IsCaught(c, asked, e) ==
  /\ asked.passive /\ c.passive
  /\ c.phase = "caught" /\ c.at = None /\ c.who = asked.who /\ c.error = e

\* It is rejected with an error.
Rejected(k, asked, e) == IsCaught(call'[k], asked, e) \/ (~asked.passive /\ call'[k] = NoCall)

\* Only k's call has changed.
OnlyCall(k) == call' \in [Caller -> Call] /\ \A j \in Caller \ {k} : call'[j] = call[j]

LEMMA ReturnMoves ==
  ASSUME TypeOK, NEW k \in Caller, Returns(k)
  PROVE  OnlyCall(k) /\ call'[k] = NoCall
BY CallTypes DEF Returns, TypeOK, OnlyCall

LEMMA AwaitMoves ==
  ASSUME TypeOK, NEW k \in Caller, NEW asked \in Call, NEW s \in Src, Awaits(k, asked, s)
  PROVE  OnlyCall(k) /\ IsWaiting(call'[k], asked, s)
BY AwaitTypes DEF Awaits, TypeOK, OnlyCall, IsWaiting

LEMMA ThrowMoves ==
  ASSUME TypeOK, NEW k \in Caller, NEW asked \in Call, NEW e \in Errors, Throws(k, asked, e)
  PROVE  OnlyCall(k) /\ Rejected(k, asked, e)
<1>1. CASE asked.passive
  <2> DEFINE w == [asked EXCEPT !.phase = "caught", !.at = None, !.error = e]
  <2>1. /\ w \in Call /\ w.phase = "caught" /\ w.at = None /\ w.who = asked.who
        /\ w.passive = asked.passive /\ w.error = e
    BY ThrowTypes
  <2>2. call' = [call EXCEPT ![k] = w]
    BY <1>1 DEF Throws
  <2> HIDE DEF w
  <2>3. OnlyCall(k) /\ call'[k] = w
    BY <2>1, <2>2 DEF TypeOK, OnlyCall
  <2>4. w.passive
    BY <1>1, <2>1, Zenon
  <2> QED BY <1>1, <2>1, <2>3, <2>4, Zenon DEF IsCaught, Rejected
<1>2. CASE ~asked.passive
  BY <1>2, CallTypes DEF Throws, TypeOK, OnlyCall, Rejected
<1> QED BY <1>1, <1>2

\* How a step of ensureConnected() ends, of a call that asks for its session.
Outcome(k, asked) ==
  \/ UNCHANGED conn /\ call'[k] = NoCall
  \/ /\ UNCHANGED conn /\ current \in Src /\ of[current] = asked.who
     /\ IsWaiting(call'[k], asked, current)
  \/ \E s \in Src : Opened(s, asked.who) /\ IsWaiting(call'[k], asked, s)
  \/ Dropped("closed") /\ Rejected(k, asked, "closed")
  \/ UNCHANGED conn /\ \E e \in Errors : Rejected(k, asked, e)

LEMMA OpenOutcome ==
  ASSUME TypeOK, NEW k \in Caller, NEW asked \in Call, asked.who \in Session, Open(k, asked)
  PROVE  /\ ConnTypes' /\ OnlyCall(k)
         /\ \/ \E s \in Src : Opened(s, asked.who) /\ IsWaiting(call'[k], asked, s)
            \/ Dropped("closed") /\ Rejected(k, asked, "closed")
<1>1. ASSUME NEW s \in Src, Opened(s, asked.who), Awaits(k, asked, s)
      PROVE  OnlyCall(k) /\ IsWaiting(call'[k], asked, s)
  BY <1>1, AwaitMoves
<1>2. ASSUME Throws(k, asked, "closed")
      PROVE  OnlyCall(k) /\ Rejected(k, asked, "closed")
  BY <1>2, ThrowMoves DEF Errors
<1> QED BY <1>1, <1>2, OpenFacts

\* The connection to its session is joined, or another is opened or fails to be.
Entered(k, asked) ==
  \/ /\ UNCHANGED conn /\ current \in Src /\ of[current] = asked.who
     /\ call'[k] = NoCall \/ IsWaiting(call'[k], asked, current)
  \/ /\ ~(current # None /\ of[current] = asked.who)
     /\ \/ \E s \in Src : Opened(s, asked.who) /\ IsWaiting(call'[k], asked, s)
        \/ Dropped("closed") /\ Rejected(k, asked, "closed")

LEMMA EnterOutcome ==
  ASSUME TypeOK, NEW k \in Caller, NEW asked \in Call, asked.who \in Session, Enter(k, asked)
  PROVE  ConnTypes' /\ OnlyCall(k) /\ Entered(k, asked)
<1>1. CASE current # None /\ of[current] = asked.who
  <2>1. current \in Src
    BY <1>1 DEF TypeOK
  <2>2. UNCHANGED conn /\ (Returns(k) \/ Awaits(k, asked, current))
    BY <1>1 DEF Enter
  <2>3. ConnTypes'
    BY <2>2 DEF ConnTypes, conn, TypeOK
  <2>4. OnlyCall(k) /\ (call'[k] = NoCall \/ IsWaiting(call'[k], asked, current))
    BY <2>1, <2>2, ReturnMoves, AwaitMoves
  <2> QED BY <1>1, <2>1, <2>2, <2>3, <2>4 DEF Entered
<1>2. CASE ~(current # None /\ of[current] = asked.who)
  <2>1. Open(k, asked)
    BY <1>2 DEF Enter
  <2>2. ConnTypes' /\ OnlyCall(k) /\ Entered(k, asked)
    BY <1>2, <2>1, OpenOutcome, Zenon DEF Entered
  <2> QED BY <2>2
<1> QED BY <1>1, <1>2

LEMMA EnteredIsOutcome ==
  ASSUME NEW k \in Caller, NEW asked \in Call, Entered(k, asked)
  PROVE  Outcome(k, asked)
BY Zenon DEF Entered, Outcome

-----------------------------------------------------------------------------
(* The inductive invariant.                                                *)

\* A call waits at a source; a source that is current serves the session of those at it.
Waits ==
  \A k \in Caller :
    /\ call[k].phase = "waiting" =>
         /\ call[k].at \in Src /\ call[k].who \in Session /\ call[k].error = "none"
         /\ call[k].at = current => of[current] = call[k].who
    /\ k \in fresh => call[k].phase # "none"

\* The current source has not failed.
Alive == current # None => attempt[current] \in {"pending", "resolved"}

\* What has replaced a source that was ready is not ready yet, while a waiter has to hear of it.
Newer ==
  \A k \in Caller :
    /\ call[k].phase = "waiting"
    /\ attempt[call[k].at] = "resolved" /\ current \notin {call[k].at, None}
    => attempt[current] = "pending"

\* A source that is ready, and has called off the retries, is open until its waiters return.
StillOpen ==
  \A k \in Caller :
    /\ call[k].phase = "waiting" /\ call[k].passive /\ k \notin fresh
    /\ call[k].at = current /\ attempt[current] = "resolved"
    => src[current] = "open"

\* A refusal calls off the retries before maintain() hears of it.
Unrefused ==
  \A k \in fresh :
    /\ call[k].error # "startup_error"
    /\ call[k].phase = "waiting" => attempt[call[k].at] # "startup_error"

\* k's failure is on its way to maintain(), which will set a retry.
WillRetry(k) ==
  /\ k \in fresh /\ call[k].passive /\ call[k].who = kept
  /\ \/ call[k].phase = "caught"
     \/ call[k].phase = "waiting" /\ attempt[call[k].at] \in {"closed", "ready_timeout"}

\* The session that is to be kept connected is wanted, and has a source, a retry or a failure that
\* sets one.
Kept ==
  kept # None =>
    /\ demand = kept
    /\ current # None => of[current] = kept
    /\ current # None \/ retry = kept \/ \E k \in Caller : WillRetry(k)

Silent == closed => current = None /\ retry = None /\ fresh = {}

Inv == TypeOK /\ OneStream /\ Waits /\ Alive /\ Newer /\ StillOpen /\ Unrefused /\ Kept /\ Silent

(* A step of one call keeps what concerns sources and those that wait.     *)
LEMMA CallKeeps ==
  ASSUME Inv, NEW k \in Caller, NEW asked \in Call,
         call'[k].phase = "waiting" => asked.who \in Session,
         asked.error = "none", OnlyCall(k), Outcome(k, asked),
         fresh' \in SUBSET Caller, \A j \in Caller \ {k} : j \in fresh' <=> j \in fresh,
         k \in fresh' => call'[k].phase # "none",
         \/ k \in fresh' \/ ~asked.passive
         \/ ~(UNCHANGED conn /\ call'[k].phase = "waiting" /\ attempt[current] = "resolved"),
         k \in fresh' => ~(call'[k].phase = "caught" /\ call'[k].error = "startup_error")
  PROVE  OneStream' /\ Waits' /\ Alive' /\ Newer' /\ StillOpen' /\ Unrefused'
<1> USE EventConnectionAssumption
<1>k. NoCall.phase = "none"
  BY CallTypes
<1>f. \A j \in Caller \ {k} : j \in fresh' <=> j \in fresh
  OBVIOUS
<1>c. \A j \in Caller \ {k} : call'[j] = call[j]
  BY DEF OnlyCall
<1>e. call'[k].phase # "waiting" => k \notin fresh' \/ call'[k].error # "startup_error"
  <2>1. call'[k] \in Call
    BY DEF OnlyCall
  <2>2. call'[k].phase \in {"none", "waiting", "caught"}
    BY <2>1 DEF Call
  <2> QED BY <2>2
<1>1. CASE UNCHANGED conn /\ call'[k].phase # "waiting"
  <2>1. OneStream' /\ Alive'
    BY <1>1 DEF conn, Inv, OneStream, Alive
  <2>2. Waits'
    BY <1>1, <1>f, <1>c DEF conn, Inv, Waits
  <2>3. Newer' /\ StillOpen'
    BY <1>1, <1>f, <1>c DEF conn, Inv, Newer, StillOpen
  <2>5. Unrefused'
    BY <1>1, <1>f, <1>c, <1>e DEF conn, Inv, Unrefused, TypeOK
  <2> QED BY <2>1, <2>2, <2>3, <2>5
<1>2. CASE /\ UNCHANGED conn /\ current \in Src /\ of[current] = asked.who
           /\ IsWaiting(call'[k], asked, current)
  <2>1. OneStream' /\ Alive'
    BY <1>2 DEF conn, Inv, OneStream, Alive
  <2>2. Waits'
    BY <1>2, <1>f, <1>c DEF conn, Inv, Waits, IsWaiting
  <2>3. Newer'
    BY <1>2, <1>f, <1>c DEF conn, Inv, Newer, IsWaiting
  <2>4. StillOpen'
    BY <1>2, <1>f, <1>c DEF conn, Inv, StillOpen, IsWaiting
  <2>5. attempt[current] # "startup_error"
    BY <1>2 DEF Inv, Alive
  <2>6. Unrefused'
    BY <1>2, <1>f, <1>c, <2>5 DEF conn, Inv, Unrefused, TypeOK, IsWaiting
  <2> QED BY <2>1, <2>2, <2>3, <2>4, <2>6
<1>3. ASSUME NEW s \in Src, Opened(s, asked.who), IsWaiting(call'[k], asked, s)
      PROVE  OneStream' /\ Waits' /\ Alive' /\ Newer' /\ StillOpen' /\ Unrefused'
  <2>1. OneStream' /\ Alive'
    BY <1>3 DEF Opened, Inv, OneStream, Alive
  <2>2. Waits'
    BY <1>3, <1>f, <1>c DEF Opened, Inv, Waits, IsWaiting
  <2>3. Newer' /\ StillOpen'
    BY <1>3, <1>f, <1>c DEF Opened, Newer, StillOpen
  <2>4. Unrefused'
    BY <1>3, <1>f, <1>c DEF Opened, Inv, Waits, Unrefused, IsWaiting, TypeOK
  <2> QED BY <2>1, <2>2, <2>3, <2>4
<1>4. CASE Dropped("closed") /\ call'[k].phase # "waiting"
  <2>1. OneStream' /\ Alive'
    BY <1>4 DEF Dropped, Inv, OneStream, Alive
  <2>2. Waits'
    BY <1>4, <1>f, <1>c DEF Dropped, Inv, Waits
  <2>3. Newer' /\ StillOpen'
    BY <1>4, <1>f, <1>c, <2>2 DEF Dropped, Waits, Newer, StillOpen
  <2>4. Unrefused'
    BY <1>4, <1>f, <1>c, <1>e DEF Dropped, Inv, Waits, Unrefused, TypeOK
  <2> QED BY <2>1, <2>2, <2>3, <2>4
<1>5. ASSUME NEW e \in Errors, Rejected(k, asked, e)
      PROVE  call'[k].phase # "waiting"
  BY <1>5, <1>k DEF Rejected, IsCaught
<1>6. "closed" \in Errors
  BY DEF Errors
<1> QED BY <1>1, <1>2, <1>3, <1>4, <1>5, <1>6, <1>k DEF Outcome

\* What the steps must keep besides the types and Kept.
Rest == OneStream /\ Waits /\ Alive /\ Newer /\ StillOpen /\ Unrefused

(* What is to be kept connected stays so when a call does not disturb it.  *)
LEMMA KeptCarried ==
  ASSUME Inv, NEW k \in Caller, OnlyCall(k), NEW sid,
         \A j \in Caller \ {k} : j \in fresh' <=> j \in fresh,
         UNCHANGED <<demand, retry, kept>>, WillRetry(k) => WillRetry(k)',
         \/ UNCHANGED conn
         \/ Dropped("closed") /\ (current = None \/ WillRetry(k)')
         \/ \E s \in Src : Opened(s, sid) /\ (kept = None \/ sid = kept)
  PROVE  Kept'
<1> SUFFICES ASSUME kept # None
             PROVE  /\ demand' = kept
                    /\ current' # None => of'[current'] = kept
                    /\ \/ current' # None \/ retry' = kept
                       \/ \E j \in Caller : WillRetry(j)'
  BY DEF Kept
<1>1. /\ demand' = kept
      /\ current # None => of[current] = kept
      /\ current # None \/ retry = kept \/ \E j \in Caller : WillRetry(j)
  BY DEF Inv, Kept
<1>2. ASSUME NEW j \in Caller, WillRetry(j), \A x \in Src : attempt'[x] = attempt[x]
      PROVE  WillRetry(j)'
  <2>1. CASE j = k
    BY <1>2, <2>1
  <2>2. CASE j # k
    <3>1. call'[j] = call[j] /\ (j \in fresh' <=> j \in fresh)
      BY <2>2 DEF OnlyCall
    <3>2. call[j].phase = "waiting" => call[j].at \in Src
      BY DEF Inv, Waits
    <3> QED BY <1>2, <3>1, <3>2 DEF WillRetry
  <2> QED BY <2>1, <2>2
<1>3. CASE UNCHANGED conn
  BY <1>1, <1>2, <1>3 DEF conn, WillRetry
<1>4. CASE Dropped("closed") /\ current = None
  <2>1. \A x \in Src : attempt'[x] = attempt[x]
    BY <1>4, EventConnectionAssumption DEF Dropped
  <2> QED BY <1>1, <1>2, <1>4, <2>1 DEF Dropped, WillRetry
<1>5. CASE Dropped("closed") /\ WillRetry(k)'
  BY <1>1, <1>5 DEF Dropped, WillRetry
<1>6. ASSUME NEW s \in Src, Opened(s, sid), kept = None \/ sid = kept
      PROVE  current' # None /\ of'[current'] = kept
  BY <1>6, EventConnectionAssumption DEF Opened
<1> QED BY <1>1, <1>3, <1>4, <1>5, <1>6 DEF WillRetry

(* ensureConnected() for its caller.                                       *)
LEMMA EnsureConnectedKeeps ==
  ASSUME Inv, NEW k \in Caller, NEW sid \in Session, EnsureConnected(k, sid)
  PROVE  Inv'
<1> DEFINE asked == Asking(sid, FALSE)
<1>1. /\ asked \in Call /\ asked.who = sid /\ ~asked.passive /\ asked.error = "none"
      /\ NoCall.phase = "none"
  BY CallTypes
<1>2. Enter(k, asked) /\ UNCHANGED <<demand, retry, fresh>> /\ closed' = FALSE /\ call[k] = NoCall
  BY DEF EnsureConnected
<1> HIDE DEF asked
<1>3. ConnTypes' /\ OnlyCall(k) /\ Entered(k, asked)
  BY <1>1, <1>2, EnterOutcome DEF Inv
<1>4. k \notin fresh /\ fresh \in SUBSET Caller
  BY <1>1, <1>2 DEF Inv, Waits, TypeOK
<1>5. Rest'
  BY <1>1, <1>2, <1>3, <1>4, EnteredIsOutcome, CallKeeps DEF Rest
<1>6. kept' \in Session \cup {None} /\ TypeOK'
  BY <1>2, <1>3 DEF EnsureConnected, Inv, TypeOK, ConnTypes, OnlyCall
<1>7. Kept'
  <2>1. CASE kept' = None
    BY <2>1 DEF Kept
  <2>2. CASE kept' # None
    <3>1. kept = sid /\ kept' = kept
      BY <2>2 DEF EnsureConnected
    <3>2. ~WillRetry(k)
      BY <1>4 DEF WillRetry
    <3>3. current # None => of[current] = sid
      BY <2>2, <3>1 DEF Inv, Kept
    <3>4. \/ UNCHANGED conn
          \/ Dropped("closed") /\ current = None
          \/ \E s \in Src : Opened(s, sid)
      BY <1>1, <1>3, <3>3, Zenon DEF Entered
    <3> QED BY <1>2, <1>3, <3>1, <3>2, <3>4, KeptCarried
  <2> QED BY <2>1, <2>2
<1> QED BY <1>2, <1>5, <1>6, <1>7 DEF Inv, Rest, Silent

(* maintain(), called by its owner or by the timer.                        *)
LEMMA MaintainFacts ==
  ASSUME Inv, NEW k \in Caller, NEW sid \in Session, Maintain(k, sid)
  PROVE  /\ Rest' /\ ConnTypes' /\ call' \in [Caller -> Call] /\ fresh' \in SUBSET Caller
         /\ demand' = sid
         /\ current' # None => of'[current'] = sid
         /\ \/ current' # None
            \/ /\ k \in fresh' /\ call'[k].passive /\ call'[k].who = sid
               /\ call'[k].phase = "caught"
<1> DEFINE asked == Asking(sid, TRUE)
<1>1. /\ asked \in Call /\ asked.who = sid /\ asked.passive /\ asked.error = "none"
      /\ NoCall.phase = "none"
  BY CallTypes
<1>2. /\ Enter(k, asked) /\ demand = sid /\ demand' = demand /\ call[k] = NoCall
      /\ fresh' = IF call'[k] = NoCall THEN fresh ELSE fresh \cup {k}
  BY DEF Maintain
<1> HIDE DEF asked
<1>3. ConnTypes' /\ OnlyCall(k) /\ Entered(k, asked)
  BY <1>1, <1>2, EnterOutcome DEF Inv
<1>4. k \notin fresh /\ fresh \in SUBSET Caller
  BY <1>1, <1>2 DEF Inv, Waits, TypeOK
<1>5. \/ /\ UNCHANGED conn /\ current \in Src /\ of[current] = sid
         /\ call'[k] = NoCall \/ IsWaiting(call'[k], asked, current)
      \/ \E s \in Src : Opened(s, sid) /\ IsWaiting(call'[k], asked, s)
      \/ Dropped("closed") /\ IsCaught(call'[k], asked, "closed")
  BY <1>1, <1>3, Zenon DEF Entered, Rejected
<1>6. fresh' \in SUBSET Caller /\ \A j \in Caller \ {k} : j \in fresh' <=> j \in fresh
  BY <1>2, <1>4
<1>7. \/ call'[k] = NoCall /\ k \notin fresh'
      \/ call'[k].phase = "waiting" /\ k \in fresh'
      \/ IsCaught(call'[k], asked, "closed") /\ k \in fresh' /\ call'[k].phase = "caught"
  BY <1>1, <1>2, <1>4, <1>5 DEF IsWaiting, IsCaught
<1>8. /\ k \in fresh' => call'[k].phase # "none"
      /\ k \in fresh' => ~(call'[k].phase = "caught" /\ call'[k].error = "startup_error")
      /\ \/ k \in fresh' \/ ~asked.passive
         \/ ~(UNCHANGED conn /\ call'[k].phase = "waiting" /\ attempt[current] = "resolved")
  BY <1>1, <1>7 DEF IsCaught
<1>9. Rest'
  BY <1>1, <1>3, <1>6, <1>8, EnteredIsOutcome, CallKeeps DEF Rest
<1>10. CASE UNCHANGED conn /\ current \in Src /\ of[current] = sid
  BY <1>2, <1>3, <1>6, <1>9, <1>10, EventConnectionAssumption DEF conn, OnlyCall
<1>11. ASSUME NEW s \in Src, Opened(s, sid)
       PROVE  current' # None /\ of'[current'] = sid
  BY <1>11, EventConnectionAssumption DEF Opened
<1>12. CASE Dropped("closed") /\ IsCaught(call'[k], asked, "closed")
  BY <1>1, <1>2, <1>3, <1>6, <1>7, <1>9, <1>12 DEF OnlyCall, IsCaught, Dropped
<1>13. CASE \E s \in Src : Opened(s, sid)
  BY <1>2, <1>3, <1>6, <1>9, <1>11, <1>13 DEF OnlyCall
<1> QED BY <1>5, <1>10, <1>12, <1>13, Zenon

LEMMA MaintainCalledKeeps ==
  ASSUME Inv, NEW k \in Caller, NEW sid \in Session, MaintainCalled(k, sid)
  PROVE  Inv'
<1>1. Maintain(k, sid) /\ kept' = sid /\ closed' = FALSE /\ retry' = retry
  BY DEF MaintainCalled
<1>2. TypeOK'
  BY <1>1, MaintainFacts DEF Inv, TypeOK, ConnTypes
<1>3. current' # None \/ WillRetry(k)'
  BY <1>1, MaintainFacts DEF WillRetry
<1>4. Kept'
  BY <1>1, <1>3, MaintainFacts DEF Kept
<1> QED BY <1>1, <1>2, <1>4, MaintainFacts DEF Inv, Rest, Silent

LEMMA RetryFiresKeeps ==
  ASSUME Inv, NEW k \in Caller, RetryFires(k)
  PROVE  Inv'
<1>1. retry \in Session /\ retry' = None /\ UNCHANGED <<kept, closed>> /\ ~closed
  BY DEF RetryFires, Inv, TypeOK, Silent
<1>2. CASE demand = retry
  <2>1. Maintain(k, retry)
    BY <1>2 DEF RetryFires
  <2>2. TypeOK'
    BY <1>1, <2>1, MaintainFacts DEF Inv, TypeOK, ConnTypes
  <2>3. current' # None \/ (WillRetry(k)' \/ kept # retry)
    BY <1>1, <2>1, MaintainFacts DEF WillRetry
  <2>4. kept # None => kept = retry
    BY <1>2 DEF Inv, Kept
  <2>5. Kept'
    BY <1>1, <2>1, <2>3, <2>4, MaintainFacts DEF Kept
  <2> QED BY <1>1, <2>1, <2>2, <2>5, MaintainFacts DEF Inv, Rest, Silent
<1>3. CASE demand # retry
  <2>1. UNCHANGED <<demand, src, of, ready, attempt, current, call, fresh, kept, closed>>
    BY <1>1, <1>3 DEF RetryFires, conn
  <2>2. TypeOK' /\ OneStream' /\ Waits' /\ Alive'
    BY <1>1, <2>1 DEF Inv, TypeOK, OneStream, Waits, Alive
  <2>3. Newer' /\ StillOpen' /\ Unrefused' /\ Silent'
    BY <1>1, <2>1 DEF Inv, Newer, StillOpen, Unrefused, Silent
  <2>4. Kept'
    BY <1>1, <1>3, <2>1 DEF Inv, Kept, WillRetry
  <2> QED BY <2>2, <2>3, <2>4 DEF Inv
<1> QED BY <1>2, <1>3

(* The continuation of a caller: what it may find.                         *)
LEMMA ResumedFacts ==
  ASSUME Inv, NEW k \in Caller, Resumed(k)
  PROVE  /\ ConnTypes' /\ OnlyCall(k) /\ Outcome(k, call[k])
         /\ call[k] \in Call /\ call[k].phase = "waiting" /\ call[k].who \in Session
         /\ call[k].at \in Src /\ call[k].error = "none"
         /\ \/ /\ attempt[call[k].at] \in Errors /\ UNCHANGED conn
               /\ Rejected(k, call[k], attempt[call[k].at])
            \/ /\ attempt[call[k].at] = "resolved" /\ UNCHANGED conn
               /\ \/ call'[k] = NoCall
                  \/ Rejected(k, call[k], "closed")
                  \/ call'[k].phase = "waiting" /\ attempt[current] = "pending"
            \/ /\ attempt[call[k].at] = "resolved"
               /\ call[k].at = current /\ src[current] # "open"
               /\ \/ \E s \in Src : Opened(s, call[k].who) /\ IsWaiting(call'[k], call[k], s)
                  \/ Dropped("closed") /\ Rejected(k, call[k], "closed")
<1> DEFINE c == call[k]
           s == call[k].at
<1>1. /\ c \in Call /\ c.phase = "waiting" /\ c.who \in Session /\ s \in Src
      /\ c.error = "none" /\ attempt[s] # "pending"
      /\ attempt[s] \in {"pending", "resolved"} \cup Errors
  BY DEF Resumed, Settling, Inv, Waits, TypeOK
<1>2. "resolved" \notin Errors /\ "closed" \in Errors
  BY DEF Errors
<1>3. \/ attempt[s] \in Errors /\ Throws(k, c, attempt[s]) /\ UNCHANGED conn
      \/ /\ attempt[s] = "resolved" /\ current # s /\ current # None /\ of[current] = c.who
         /\ Enter(k, c)
      \/ attempt[s] = "resolved" /\ Throws(k, c, "closed") /\ UNCHANGED conn
      \/ attempt[s] = "resolved" /\ Returns(k) /\ UNCHANGED conn
      \/ attempt[s] = "resolved" /\ current = s /\ src[s] # "open" /\ Open(k, c)
  BY <1>1, <1>2 DEF Resumed
<1>4. current = s => of[current] = c.who
  BY <1>1 DEF Inv, Waits
<1>5. UNCHANGED conn => ConnTypes'
  BY DEF Inv, TypeOK, ConnTypes, conn
<1>6. CASE attempt[s] \in Errors /\ Throws(k, c, attempt[s]) /\ UNCHANGED conn
  <2>1. OnlyCall(k) /\ Rejected(k, c, attempt[s])
    BY <1>1, <1>6, ThrowMoves DEF Inv
  <2>2. Outcome(k, c)
    BY <1>6, <2>1 DEF Outcome
  <2> QED BY <1>1, <1>5, <1>6, <2>1, <2>2
<1>7. CASE /\ attempt[s] = "resolved" /\ current # s /\ current # None /\ of[current] = c.who
           /\ Enter(k, c)
  <2>1. ConnTypes' /\ OnlyCall(k) /\ Entered(k, c)
    BY <1>1, <1>7, EnterOutcome DEF Inv
  <2>2. UNCHANGED conn /\ (call'[k] = NoCall \/ IsWaiting(call'[k], c, current))
    BY <1>7, <2>1 DEF Entered
  <2>3. attempt[current] = "pending"
    BY <1>1, <1>7 DEF Inv, Newer
  <2>4. Outcome(k, c)
    BY <1>1, <2>1, EnteredIsOutcome
  <2>5. IsWaiting(call'[k], c, current) => call'[k].phase = "waiting"
    BY DEF IsWaiting
  <2> QED BY <1>1, <1>7, <2>1, <2>2, <2>3, <2>4, <2>5
<1>8. CASE attempt[s] = "resolved" /\ Throws(k, c, "closed") /\ UNCHANGED conn
  <2>1. OnlyCall(k) /\ Rejected(k, c, "closed")
    BY <1>1, <1>2, <1>8, ThrowMoves DEF Inv
  <2>2. Outcome(k, c)
    BY <1>2, <1>8, <2>1 DEF Outcome
  <2> QED BY <1>1, <1>5, <1>8, <2>1, <2>2
<1>9. CASE attempt[s] = "resolved" /\ Returns(k) /\ UNCHANGED conn
  <2>1. OnlyCall(k) /\ call'[k] = NoCall
    BY <1>9, ReturnMoves DEF Inv
  <2>2. Outcome(k, c)
    BY <1>9, <2>1 DEF Outcome
  <2> QED BY <1>1, <1>5, <1>9, <2>1, <2>2
<1>10. CASE attempt[s] = "resolved" /\ current = s /\ src[s] # "open" /\ Open(k, c)
  <2>1. /\ ConnTypes' /\ OnlyCall(k)
        /\ \/ \E x \in Src : Opened(x, c.who) /\ IsWaiting(call'[k], c, x)
           \/ Dropped("closed") /\ Rejected(k, c, "closed")
    BY <1>1, <1>10, OpenOutcome DEF Inv
  <2>2. Outcome(k, c)
    BY <2>1, Zenon DEF Outcome
  <2> QED BY <1>1, <1>10, <2>1, <2>2
<1> QED BY <1>3, <1>6, <1>7, <1>8, <1>9, <1>10

LEMMA ResumedKeeps ==
  ASSUME Inv, NEW k \in Caller, Resumed(k)
  PROVE  Inv'
<1> DEFINE c == call[k]
           s == call[k].at
<1>1. /\ ConnTypes' /\ OnlyCall(k) /\ Outcome(k, c)
      /\ c \in Call /\ c.phase = "waiting" /\ c.who \in Session /\ s \in Src /\ c.error = "none"
  BY ResumedFacts
<1>2. /\ fresh' = IF call'[k] = NoCall THEN fresh \ {k} ELSE fresh
      /\ kept' = IF current # None /\ current' = None /\ ~c.passive THEN None ELSE kept
      /\ UNCHANGED <<demand, retry, closed>>
  BY DEF Resumed
<1>3. /\ fresh' \in SUBSET Caller
      /\ \A j \in Caller \ {k} : j \in fresh' <=> j \in fresh
      /\ k \in fresh' => k \in fresh /\ call'[k] # NoCall
  BY <1>2 DEF Inv, TypeOK
<1>4. NoCall.phase = "none"
  BY CallTypes
<1>a. \A e \in Errors : Rejected(k, c, e) => call'[k] = NoCall \/ IsCaught(call'[k], c, e)
  BY Zenon DEF Rejected
<1>5. CASE /\ attempt[s] \in Errors /\ UNCHANGED conn
           /\ Rejected(k, c, attempt[s])
  <2>1. call'[k] = NoCall \/ IsCaught(call'[k], c, attempt[s])
    BY <1>5, <1>a
  <2>2. k \in fresh => attempt[s] # "startup_error"
    BY <1>1 DEF Inv, Unrefused
  <2>3. Rest'
    BY <1>1, <1>3, <1>4, <2>1, <2>2, CallKeeps DEF IsCaught, Rest
  <2>4. WillRetry(k) => WillRetry(k)'
    <3> SUFFICES ASSUME WillRetry(k)
                 PROVE  WillRetry(k)'
      OBVIOUS
    <3>1. k \in fresh /\ c.passive /\ c.who = kept
      BY DEF WillRetry
    <3>2. IsCaught(call'[k], c, attempt[s])
      BY <1>5, <3>1, Zenon DEF Rejected
    <3>3. k \in fresh'
      BY <1>2, <1>4, <3>1, <3>2 DEF IsCaught
    <3>4. kept' = kept
      BY <1>2, <1>5 DEF conn
    <3> QED BY <3>1, <3>2, <3>3, <3>4 DEF WillRetry, IsCaught
  <2>5. kept' = kept
    BY <1>2, <1>5 DEF conn
  <2>6. Kept'
    BY <1>1, <1>2, <1>3, <1>5, <2>4, <2>5, KeptCarried
  <2>7. Silent'
    BY <1>2, <1>3, <1>5 DEF conn, Inv, Silent
  <2> QED BY <1>1, <1>2, <1>3, <2>3, <2>5, <2>6, <2>7 DEF Inv, Rest, TypeOK, ConnTypes, OnlyCall
<1>6. CASE /\ attempt[s] = "resolved" /\ UNCHANGED conn
           /\ \/ call'[k] = NoCall
              \/ Rejected(k, c, "closed")
              \/ call'[k].phase = "waiting" /\ attempt[current] = "pending"
  <2>1. \/ call'[k] = NoCall
        \/ IsCaught(call'[k], c, "closed")
        \/ call'[k].phase = "waiting" /\ attempt[current] = "pending"
    BY <1>6, <1>a DEF Errors
  <2>2. Rest'
    BY <1>1, <1>3, <1>4, <2>1, CallKeeps DEF IsCaught, Rest
  <2>3. ~WillRetry(k) /\ kept' = kept
    BY <1>1, <1>2, <1>6 DEF WillRetry, conn
  <2>4. Kept'
    BY <1>1, <1>2, <1>3, <1>6, <2>3, KeptCarried
  <2>5. Silent'
    BY <1>2, <1>3, <1>6 DEF conn, Inv, Silent
  <2> QED BY <1>1, <1>2, <1>3, <2>2, <2>3, <2>4, <2>5 DEF Inv, Rest, TypeOK, ConnTypes, OnlyCall
<1>7. CASE /\ attempt[s] = "resolved"
           /\ s = current /\ src[current] # "open"
           /\ \/ \E x \in Src : Opened(x, c.who) /\ IsWaiting(call'[k], c, x)
              \/ Dropped("closed") /\ Rejected(k, c, "closed")
  <2>1. c.passive => k \in fresh
    BY <1>1, <1>7 DEF Inv, StillOpen
  <2>2. /\ current # None /\ of[current] = c.who /\ ~closed
        /\ kept # None => c.who = kept
    BY <1>1, <1>7, EventConnectionAssumption DEF Inv, Waits, Kept, Silent
  <2>3. ~WillRetry(k)
    BY <1>1, <1>7 DEF WillRetry
  <2>4. ASSUME NEW x \in Src, Opened(x, c.who), IsWaiting(call'[k], c, x)
        PROVE  Rest' /\ Kept' /\ kept' = kept
    <3>1. call'[k].phase = "waiting"
      BY <1>1, <2>4 DEF IsWaiting
    <3>2. k \in fresh' \/ ~c.passive
      BY <1>2, <1>4, <2>1, <3>1
    <3>3. Rest'
      BY <1>1, <1>3, <1>4, <3>1, <3>2, CallKeeps DEF Rest
    <3>4. kept' = kept
      BY <1>2, <2>4, EventConnectionAssumption DEF Opened
    <3>5. Kept'
      BY <1>1, <1>2, <1>3, <2>2, <2>3, <2>4, <3>4, KeptCarried
    <3> QED BY <3>3, <3>4, <3>5
  <2>5. ASSUME Dropped("closed"), Rejected(k, c, "closed")
        PROVE  Rest' /\ Kept'
    <3>1. call'[k] = NoCall \/ IsCaught(call'[k], c, "closed")
      BY <2>5, <1>a DEF Errors
    <3>2. Rest'
      BY <1>1, <1>3, <1>4, <3>1, CallKeeps DEF IsCaught, Rest
    <3>3. kept' = None \/ (kept' = kept /\ c.passive)
      BY <1>2, <2>2, <2>5, Zenon DEF Dropped
    <3>4. ASSUME kept' = None
          PROVE  Kept'
      BY <3>4 DEF Kept
    <3>5. ASSUME kept' = kept, c.passive, kept # None
          PROVE  Kept'
      <4>1. IsCaught(call'[k], c, "closed")
        BY <2>5, <3>5, Zenon DEF Rejected
      <4>2. k \in fresh'
        BY <1>2, <1>4, <2>1, <3>5, <4>1 DEF IsCaught
      <4>3. WillRetry(k)'
        BY <2>2, <3>5, <4>1, <4>2 DEF WillRetry, IsCaught
      <4> QED BY <1>1, <1>2, <1>3, <2>5, <3>5, <4>3, KeptCarried
    <3> QED BY <3>2, <3>3, <3>4, <3>5
  <2>6. Silent'
    BY <1>2, <2>2 DEF Silent
  <2>7. Rest' /\ Kept'
    BY <1>7, <2>4, <2>5
  <2>8. kept' \in Session \cup {None}
    BY <1>2 DEF Inv, TypeOK
  <2> QED BY <1>1, <1>2, <1>3, <2>6, <2>7, <2>8 DEF Inv, Rest, TypeOK, ConnTypes, OnlyCall
<1> QED BY <1>5, <1>6, <1>7, ResumedFacts

LEMMA CaughtKeeps ==
  ASSUME Inv, NEW k \in Caller, Caught(k)
  PROVE  Inv'
<1>1. /\ call[k].phase = "caught" /\ Returns(k) /\ UNCHANGED <<demand, conn, kept, closed>>
      /\ \/ k \notin fresh /\ UNCHANGED <<retry, fresh>>
         \/ k \in fresh /\ ScheduleRetry(call[k].who) /\ fresh' = fresh \ {k}
  BY DEF Caught, Inv, Unrefused
<1>2. OnlyCall(k) /\ call'[k] = NoCall
  BY <1>1, ReturnMoves DEF Inv
<1>3. NoCall \in Call /\ NoCall.phase = "none" /\ NoCall.error = "none"
  BY CallTypes DEF NoCall
<1>4. /\ fresh' \in SUBSET Caller /\ k \notin fresh'
      /\ \A j \in Caller \ {k} : j \in fresh' <=> j \in fresh
  BY <1>1 DEF Inv, TypeOK
<1>5. Outcome(k, NoCall)
  BY <1>1, <1>2 DEF Outcome, conn
<1>6. Rest'
  BY <1>2, <1>3, <1>4, <1>5, CallKeeps DEF Rest
<1>7. retry' \in Session \cup {None}
  BY <1>1 DEF ScheduleRetry, Inv, TypeOK
<1>8. TypeOK'
  BY <1>1, <1>2, <1>4, <1>7 DEF Inv, TypeOK, OnlyCall, conn
<1>9. Kept'
  <2> SUFFICES ASSUME kept # None
               PROVE  /\ demand' = kept
                      /\ current' # None => of'[current'] = kept
                      /\ \/ current' # None \/ retry' = kept
                         \/ \E j \in Caller : WillRetry(j)'
    BY <1>1 DEF Kept
  <2>1. /\ demand' = kept
        /\ current' # None => of'[current'] = kept
    BY <1>1 DEF Inv, Kept, conn
  <2>2. current # None \/ retry = kept \/ \E j \in Caller : WillRetry(j)
    BY DEF Inv, Kept
  <2>3. CASE current # None
    BY <1>1, <2>1, <2>3 DEF conn
  <2>4. CASE retry = kept
    BY <1>1, <2>1, <2>4 DEF ScheduleRetry
  <2>5. CASE WillRetry(k)
    BY <1>1, <2>1, <2>5 DEF ScheduleRetry, WillRetry
  <2>6. ASSUME NEW j \in Caller \ {k}, WillRetry(j)
        PROVE  \E x \in Caller : WillRetry(x)'
    BY <1>1, <1>2, <1>4, <2>6 DEF WillRetry, OnlyCall, conn
  <2> QED BY <2>1, <2>2, <2>3, <2>4, <2>5, <2>6
<1>10. Silent'
  BY <1>1 DEF Inv, Silent, conn
<1> QED BY <1>6, <1>8, <1>9, <1>10 DEF Inv, Rest

(* A source that is dropped leaves none, and its waiters with an error.    *)
LEMMA DropKeeps ==
  ASSUME Inv, NEW e \in Errors, Dropped(e), UNCHANGED call, fresh' \in SUBSET fresh,
         e = "startup_error" => fresh' = {}
  PROVE  Rest'
<1> USE EventConnectionAssumption
<1>1. OneStream' /\ Alive'
  BY DEF Dropped, Inv, OneStream, Alive
<1>2. Waits'
  BY DEF Dropped, Inv, Waits
<1>3. Newer' /\ StillOpen'
  BY <1>2 DEF Dropped, Waits, Newer, StillOpen
<1>4. Unrefused'
  <2>1. CASE e = "startup_error"
    BY <2>1 DEF Unrefused
  <2>2. CASE e # "startup_error"
    BY <2>2 DEF Dropped, Inv, Waits, Unrefused, TypeOK
  <2> QED BY <2>1, <2>2
<1> QED BY <1>1, <1>2, <1>3, <1>4 DEF Rest

LEMMA SourceOpensKeeps ==
  ASSUME Inv, NEW s \in Src, SourceOpens(s) \/ SourceDrops(s)
  PROVE  Inv'
<1>1. /\ Quiet /\ s = current /\ src[s] # "closed"
      /\ \/ src' = [src EXCEPT ![s] = "open"]
         \/ src' = [src EXCEPT ![s] = "connecting"]
      /\ UNCHANGED <<demand, of, ready, attempt, current, retry, call, fresh, kept, closed>>
  BY DEF SourceOpens, SourceDrops, Inv, OneStream
<1>2. TypeOK' /\ OneStream' /\ Waits' /\ Alive'
  BY <1>1 DEF Inv, TypeOK, OneStream, Waits, Alive
<1>3. Newer' /\ Unrefused' /\ Silent' /\ Kept'
  BY <1>1 DEF Inv, Newer, Unrefused, Silent, Kept, WillRetry
<1>4. StillOpen'
  BY <1>1 DEF Quiet, Settling, StillOpen
<1> QED BY <1>2, <1>3, <1>4 DEF Inv

LEMMA ConnectedKeeps ==
  ASSUME Inv, NEW s \in Src, Connected(s)
  PROVE  Inv'
<1>1. /\ Quiet /\ s = current /\ src[s] = "open" /\ ready' = ready \cup {s}
      /\ attempt' = [attempt EXCEPT ![s] = Settled(s, "resolved")]
      /\ retry' = None /\ fresh' = {}
      /\ UNCHANGED <<demand, src, of, current, call, kept, closed>>
  BY DEF Connected, StopRetrying
<1>2. current # None
  BY <1>1, EventConnectionAssumption
<1>3. attempt'[s] \in {"pending", "resolved"} \cup Errors
  BY <1>1 DEF Settled, Inv, TypeOK
<1>4. TypeOK' /\ OneStream' /\ Waits'
  BY <1>1, <1>3 DEF Inv, TypeOK, OneStream, Waits
<1>5. Alive'
  BY <1>1, <1>2 DEF Settled, Inv, Alive, TypeOK
<1>6. Newer' /\ StillOpen' /\ Unrefused'
  <2>1. \A k \in Caller : call[k].phase = "waiting" => attempt[call[k].at] # "resolved"
    BY <1>1 DEF Quiet, Settling
  <2>2. \A k \in Caller : call[k].phase = "waiting" /\ call[k].at # s =>
          attempt'[call[k].at] = attempt[call[k].at]
    BY <1>1 DEF Inv, Waits, TypeOK
  <2> QED BY <1>1, <2>1, <2>2 DEF Newer, StillOpen, Unrefused
<1>7. Kept' /\ Silent'
  BY <1>1, <1>2 DEF Inv, Kept, Silent
<1> QED BY <1>4, <1>5, <1>6, <1>7 DEF Inv

LEMMA StartupErrorKeeps ==
  ASSUME Inv, NEW s \in Src, StartupError(s)
  PROVE  Inv'
<1>1. /\ s = current /\ Discard(s, "startup_error") /\ retry' = None /\ fresh' = {}
      /\ kept' = None /\ UNCHANGED <<demand, call, closed>>
  BY DEF StartupError, StopRetrying
<1>2. Dropped("startup_error") /\ ConnTypes' /\ "startup_error" \in Errors
  BY <1>1, DiscardFacts DEF Inv, Errors
<1>3. Rest'
  BY <1>1, <1>2, DropKeeps
<1>4. TypeOK'
  BY <1>1, <1>2 DEF Inv, TypeOK, ConnTypes
<1> QED BY <1>1, <1>2, <1>3, <1>4 DEF Inv, Rest, Kept, Silent, Dropped

LEMMA FailKeeps ==
  ASSUME Inv, NEW s \in Src, NEW e \in {"closed", "ready_timeout"}, Fail(s, e)
  PROVE  Inv'
<1>1. /\ s = current /\ Discard(s, e) /\ ScheduleRetry(of[s])
      /\ UNCHANGED <<demand, call, fresh, kept, closed>>
  BY DEF Fail
<1>2. Dropped(e) /\ ConnTypes' /\ e \in Errors
  BY <1>1, DiscardFacts DEF Inv, Errors
<1>3. Rest'
  BY <1>1, <1>2, DropKeeps
<1>4. TypeOK'
  BY <1>1, <1>2 DEF Inv, TypeOK, ConnTypes, ScheduleRetry
<1>5. ~closed /\ (kept # None => demand = kept /\ of[s] = kept)
  BY <1>1, EventConnectionAssumption DEF Inv, Kept, Silent
<1>6. Kept' /\ Silent'
  BY <1>1, <1>2, <1>5 DEF Kept, Silent, Dropped, ScheduleRetry
<1> QED BY <1>3, <1>4, <1>6 DEF Inv, Rest

LEMMA CloseKeeps ==
  ASSUME Inv, Close
  PROVE  Inv'
<1>1. /\ retry' = None /\ fresh' = {} /\ kept' = None /\ closed' = TRUE
      /\ UNCHANGED <<demand, call>>
      /\ IF current = None THEN UNCHANGED conn ELSE Discard(current, "closed")
  BY DEF Close, StopRetrying
<1>2. Dropped("closed") /\ ConnTypes' /\ "closed" \in Errors
  <2>1. CASE current = None
    BY <1>1, <2>1, NothingDropped DEF Inv, Errors
  <2>2. CASE current # None
    <3>1. current \in Src /\ "closed" \in Errors
      BY <2>2 DEF Inv, TypeOK, Errors
    <3> QED BY <1>1, <2>2, <3>1, DiscardFacts DEF Inv
  <2> QED BY <2>1, <2>2
<1>3. Rest'
  BY <1>1, <1>2, DropKeeps
<1>4. TypeOK'
  BY <1>1, <1>2 DEF Inv, TypeOK, ConnTypes
<1> QED BY <1>1, <1>2, <1>3, <1>4 DEF Inv, Rest, Kept, Silent, Dropped

LEMMA IdleKeeps ==
  ASSUME Inv, UNCHANGED <<conn, retry, call, fresh, closed>>,
         \/ demand' \in Session \cup {None} /\ kept' = None
         \/ UNCHANGED <<demand, kept>>
  PROVE  Inv'
<1>1. TypeOK' /\ OneStream' /\ Waits' /\ Alive'
  BY DEF Inv, TypeOK, OneStream, Waits, Alive, conn
<1>2. Newer' /\ StillOpen' /\ Unrefused' /\ Silent'
  BY DEF Inv, Newer, StillOpen, Unrefused, Silent, conn
<1>3. Kept'
  BY DEF Inv, Kept, WillRetry, conn
<1> QED BY <1>1, <1>2, <1>3 DEF Inv

(* Inv is inductive.                                                       *)
LEMMA InvHolds == Spec => []Inv
<1>1. Init => Inv
  <2> SUFFICES ASSUME Init
               PROVE  Inv
    OBVIOUS
  <2> USE EventConnectionAssumption
  <2>1. /\ src = [s \in Src |-> "closed"] /\ of = [s \in Src |-> None]
        /\ attempt = [s \in Src |-> "closed"] /\ call = [k \in Caller |-> NoCall]
    BY DEF Init
  <2>2. NoCall \in Call /\ NoCall.phase = "none"
    BY CallTypes
  <2>3. call \in [Caller -> Call]
    BY <2>1, <2>2
  <2>4. TypeOK
    BY <2>1, <2>3 DEF Init, TypeOK, Errors
  <2>5. \A k \in Caller : call[k].phase = "none"
    BY <2>1, <2>2
  <2>6. OneStream /\ Alive
    BY <2>1 DEF Init, OneStream, Alive
  <2>7. Waits /\ Newer /\ StillOpen /\ Unrefused
    BY <2>5 DEF Init, Waits, Newer, StillOpen, Unrefused
  <2>8. Kept /\ Silent
    BY DEF Init, Kept, Silent
  <2> QED BY <2>4, <2>6, <2>7, <2>8 DEF Inv
<1>2. Inv /\ [Next]_vars => Inv'
  <2> SUFFICES ASSUME Inv, [Next]_vars
               PROVE  Inv'
    OBVIOUS
  <2>1. CASE Close
    BY <2>1, CloseKeeps
  <2>2. ASSUME NEW sid \in Session \cup {None}, DemandChanges(sid)
        PROVE  Inv'
    BY <2>2, IdleKeeps DEF DemandChanges
  <2>3. ASSUME NEW k \in Caller, RetryFires(k) \/ Resumed(k) \/ Caught(k)
        PROVE  Inv'
    BY <2>3, RetryFiresKeeps, ResumedKeeps, CaughtKeeps
  <2>4. ASSUME NEW k \in Caller, NEW sid \in Session,
               EnsureConnected(k, sid) \/ MaintainCalled(k, sid)
        PROVE  Inv'
    BY <2>4, EnsureConnectedKeeps, MaintainCalledKeeps
  <2>5. ASSUME NEW s \in Src, SourceOpens(s) \/ SourceDrops(s) \/ Connected(s) \/ StartupError(s)
        PROVE  Inv'
    BY <2>5, SourceOpensKeeps, ConnectedKeeps, StartupErrorKeeps
  <2>6. ASSUME NEW s \in Src, SourceFails(s) \/ ReadyTimeout(s)
        PROVE  Inv'
    BY <2>6, FailKeeps DEF SourceFails, ReadyTimeout
  <2>7. CASE UNCHANGED vars
    BY <2>7, IdleKeeps DEF vars
  <2> QED BY <2>1, <2>2, <2>3, <2>4, <2>5, <2>6, <2>7, Zenon DEF Next
<1> QED BY <1>1, <1>2, PTL DEF Spec

-----------------------------------------------------------------------------
(* The theorems.                                                           *)

\* The variables have their types: a call waits at a source only, and carries the error of one
\* (agent-event-connection.ts:18-53).
THEOREM TypeCorrect == Spec => []TypeOK
<1>1. Inv => TypeOK
  BY DEF Inv
<1> QED BY <1>1, InvHolds, PTL

\* However callers and sources interleave, at most one source is not closed
\* (agent-event-connection.ts:98-99).
THEOREM StreamsAreOne == Spec => []OneStream
<1>1. Inv => OneStream
  BY DEF Inv
<1> QED BY <1>1, InvHolds, PTL

\* Nothing that close() has overtaken opens a source or sets a retry
\* (agent-event-connection.ts:55-71).
THEOREM CloseIsFinal == Spec => []ClosedStaysClosed
<1>1. Inv => ClosedStaysClosed
  BY DEF Inv, Silent, ClosedStaysClosed
<1> QED BY <1>1, InvHolds, PTL

\* The session that its owner has asked to maintain is connected or will be retried
\* (agent-event-connection.ts:60-72, 167-191).
THEOREM DemandStaysMet == Spec => []DemandIsMet
<1>1. Inv => DemandIsMet
  BY DEF Inv, Kept, WillRetry, DemandIsMet, Quiet, Settling
<1> QED BY <1>1, InvHolds, PTL

-----------------------------------------------------------------------------
(* No caller is left behind.                                               *)

\* A call waits at the current source, which has a deadline, or at one whose promise has settled,
\* so that it is about to go on.
NobodyWaitsInVain ==
  \A k \in Caller :
    call[k].phase = "waiting" => call[k].at \in Src /\ (Settling(k) \/ call[k].at = current)

PendingIsCurrent == \A s \in Src : attempt[s] = "pending" => s = current

LEMMA PendingStep ==
  ASSUME TypeOK, PendingIsCurrent, [Next]_vars
  PROVE  PendingIsCurrent'
<1>1. ASSUME UNCHANGED conn PROVE PendingIsCurrent'
  BY <1>1 DEF PendingIsCurrent, conn
<1>2. ASSUME NEW s \in Src, NEW e \in Errors, s = current, Discard(s, e) PROVE PendingIsCurrent'
  BY <1>2 DEF PendingIsCurrent, Discard, Settled, TypeOK, Errors
<1>3. ASSUME current # None, Discard(current, "closed") PROVE PendingIsCurrent'
  BY <1>2, <1>3 DEF TypeOK, Errors
<1>4. ASSUME NEW s \in Src, NEW sid, Replace(s, sid) PROVE PendingIsCurrent'
  BY <1>4 DEF PendingIsCurrent, Replace, Settled, TypeOK
<1>5. ASSUME NEW k \in Caller, NEW asked, Open(k, asked) PROVE PendingIsCurrent'
  BY <1>1, <1>3, <1>4, <1>5 DEF Open, Unused
<1>6. ASSUME NEW k \in Caller, NEW asked, Enter(k, asked) PROVE PendingIsCurrent'
  BY <1>1, <1>5, <1>6 DEF Enter
<1>7. ASSUME NEW k \in Caller, Resumed(k) PROVE PendingIsCurrent'
  <2>1. UNCHANGED conn \/ Enter(k, call[k]) \/ Open(k, call[k])
    BY <1>7 DEF Resumed
  <2> QED BY <1>1, <1>5, <1>6, <1>7, <2>1
<1>8. ASSUME NEW k \in Caller, NEW sid \in Session, EnsureConnected(k, sid) \/ Maintain(k, sid)
      PROVE  PendingIsCurrent'
  BY <1>6, <1>8 DEF EnsureConnected, Maintain
<1>9. ASSUME NEW k \in Caller, RetryFires(k) PROVE PendingIsCurrent'
  BY <1>1, <1>8, <1>9 DEF RetryFires, TypeOK
<1>10. ASSUME NEW s \in Src, Connected(s) PROVE PendingIsCurrent'
  BY <1>10 DEF Connected, PendingIsCurrent, Settled, TypeOK
<1>11. ASSUME NEW s \in Src, StartupError(s) \/ SourceFails(s) \/ ReadyTimeout(s)
       PROVE  PendingIsCurrent'
  BY <1>2, <1>11 DEF StartupError, SourceFails, ReadyTimeout, Fail, Errors
<1>12. ASSUME NEW s \in Src, SourceOpens(s) \/ SourceDrops(s) PROVE PendingIsCurrent'
  BY <1>12 DEF SourceOpens, SourceDrops, PendingIsCurrent
<1>13. CASE Close
  BY <1>1, <1>3, <1>13 DEF Close
<1>14. ASSUME NEW k \in Caller, Caught(k) PROVE PendingIsCurrent'
  BY <1>1, <1>14 DEF Caught
<1>15. /\ \A sid \in Session \cup {None} : DemandChanges(sid) => UNCHANGED conn
       /\ UNCHANGED vars => UNCHANGED conn
       /\ \A k \in Caller, sid \in Session : MaintainCalled(k, sid) => Maintain(k, sid)
  BY DEF DemandChanges, vars, MaintainCalled
<1> QED
  BY <1>1, <1>7, <1>8, <1>9, <1>10, <1>11, <1>12, <1>13, <1>14, <1>15, Zenon DEF Next

\* No call of ensureConnected() waits for the promise of a source that was discarded, and so for no
\* event and no deadline (agent-event-connection.ts:74-96, 167-191).
THEOREM WaitersAreAnswered == Spec => []NobodyWaitsInVain
<1>1. Init => PendingIsCurrent
  BY DEF Init, PendingIsCurrent
<1>2. Inv /\ PendingIsCurrent /\ [Next]_vars => PendingIsCurrent'
  BY PendingStep DEF Inv
<1>3. Inv /\ PendingIsCurrent => NobodyWaitsInVain
  BY DEF Inv, Waits, PendingIsCurrent, NobodyWaitsInVain, Settling
<1> QED BY <1>1, <1>2, <1>3, InvHolds, PTL DEF Spec

=============================================================================
