---------------------------- MODULE SessionList -----------------------------
(***************************************************************************)
(* The daemon's list of recorded sessions (apps/daemon/src/read/           *)
(* sessions.ts): scans of the session files that callers share, the cached *)
(* result with its generation, the overlay of sessions that have no file   *)
(* yet, and the paths a session id resolves to.                            *)
(*                                                                         *)
(* A scan reads one file after the other, while renames and deletes go on; *)
(* each of them raises the generation.  An action is what runs between two *)
(* I/O completions.  A file is its version, 0 when there is none.  A call  *)
(* is made once; calls are numbered in the order in which they are made.   *)
(* A scan is named after the call that began it: of the scans a call       *)
(* begins, only the last goes on.                                          *)
(***************************************************************************)
EXTENDS Integers

CONSTANTS
  Ids,     \* session ids
  Born,    \* those of sessions started here; the others have a file at boot
  Callers, \* calls of the read side, by number: a list, a rename, a delete
  NoRows,  \* no cached list
  NoScan,  \* no scan in flight
  NoId     \* a call about no session in particular

ASSUME ListAssumption == /\ Born \subseteq Ids /\ NoId \notin Ids
                         /\ Callers \subseteq Nat /\ NoScan \notin Callers
                         /\ NoRows \notin [Ids -> Nat]

VARIABLES
  disk,       \* the session files
  started,    \* sessions started here
  generation, \* __piSessionListGeneration
  cache,      \* __piSessionListCache, as long as it is fresh
  promise,    \* __piSessionListPromise: the scan later callers may join
  scan,       \* scans, by name
  extra,      \* __piSupplementalSessions
  known,      \* ids in __piSessionPathCache
  op, about,  \* what each call is, and which session it is about
  phase,      \* where it is
  on,         \* the scan it waits for
  answer,     \* the list it was given
  named,      \* ghost: the version of each file after its last rename
  gone,       \* ghost: sessions deleted
  found,      \* ghost: sessions some scan that counted has found
  floor, dead \* ghosts: what a list has to show, and what it must not

fileVars == <<disk, started, named, gone>>
callVars == <<op, about, phase, on, answer, floor, dead>>
listVars == <<generation, cache, promise, scan>>
vars == <<fileVars, callVars, listVars, extra, found, known>>

Rows == [Ids -> Nat]
NoFiles == [i \in Ids |-> 0]
Settled == {"returned", "failed", "not found"}
Shown(rows) == {i \in Ids : rows[i] > 0}
Active == {s \in Callers : scan[s].step # "idle"}
Waiting(s) == {c \in Callers : phase[c] = "waiting" /\ on[c] = s}
NewScan(g) == [step |-> "opening", gen |-> g, todo |-> {}, seen |-> NoFiles]
IdleScan == [NewScan(0) EXCEPT !.step = "idle"]
Ended(s) == [scan EXCEPT ![s] = IdleScan]

TypeOK ==
  /\ disk \in Rows /\ started \in SUBSET Born /\ named \in Rows /\ gone \in SUBSET Ids
  /\ generation \in Nat
  /\ cache \in Rows \cup {NoRows}
  /\ promise \in Callers \cup {NoScan}
  /\ scan \in [Callers -> [step : {"idle", "opening", "reading", "listed"},
                           gen : Nat, todo : SUBSET Ids, seen : Rows]]
  /\ extra \in SUBSET Ids /\ found \in SUBSET Ids /\ known \in SUBSET Ids
  /\ op \in [Callers -> {"none", "list", "force", "rename", "delete"}]
  /\ about \in [Callers -> Ids \cup {NoId}]
  /\ phase \in [Callers -> {"none", "waiting", "ready"} \cup Settled]
  /\ on \in [Callers -> Callers \cup {NoScan}]
  /\ answer \in [Callers -> [rows : Rows, transient : SUBSET Ids]]
  /\ floor \in [Callers -> Rows] /\ dead \in [Callers -> SUBSET Ids]

Init ==
  /\ disk = [i \in Ids |-> IF i \in Born THEN 0 ELSE 1]
  /\ started = {} /\ named = NoFiles /\ gone = {}
  /\ generation = 0 /\ cache = NoRows /\ promise = NoScan
  /\ scan = [c \in Callers |-> IdleScan]
  /\ extra = {} /\ found = {} /\ known = {}
  /\ op = [c \in Callers |-> "none"] /\ about = [c \in Callers |-> NoId]
  /\ phase = [c \in Callers |-> "none"] /\ on = [c \in Callers |-> NoScan]
  /\ answer = [c \in Callers |-> [rows |-> NoFiles, transient |-> {}]]
  /\ floor = [c \in Callers |-> NoFiles] /\ dead = [c \in Callers |-> {}]

\* Callers that a settled scan has resumed run before anything else does.
Quiet == \A c \in Callers : phase[c] # "ready"

(***************************************************************************)
(* listAllSessions().                                                      *)
(***************************************************************************)

\* Calls cs have their list: it is what they return, or they go on with it.
Give(cs, rows, others) ==
  /\ phase' = [c \in Callers |->
       IF c \notin cs THEN phase[c]
       ELSE IF op'[c] \in {"list", "force"} THEN "returned" ELSE "ready"]
  /\ answer' = [c \in Callers |->
       IF c \in cs THEN [rows |-> rows, transient |-> others \ Shown(rows)] ELSE answer[c]]
  /\ UNCHANGED on

Wait(cs, s) ==
  /\ phase' = [c \in Callers |-> IF c \in cs THEN "waiting" ELSE phase[c]]
  /\ on' = [c \in Callers |-> IF c \in cs THEN s ELSE on[c]]
  /\ UNCHANGED answer

\* Mutant: the scan in flight is joined whatever its generation is.
Serve_JoinsAny(cs, s, g, rows, scans) ==
  \/ /\ rows # NoRows
     /\ Give(cs, rows, extra) /\ scan' = scans /\ UNCHANGED promise
  \/ /\ rows = NoRows /\ promise # NoScan
     /\ Wait(cs, promise) /\ scan' = scans /\ UNCHANGED promise
  \/ /\ rows = NoRows /\ promise = NoScan
     /\ Wait(cs, s) /\ scan' = [scans EXCEPT ![s] = NewScan(g)] /\ promise' = s

\* Mutant: every caller scans.
Serve_NoJoin(cs, s, g, rows, scans) ==
  \/ /\ rows # NoRows
     /\ Give(cs, rows, extra) /\ scan' = scans /\ UNCHANGED promise
  \/ /\ rows = NoRows
     /\ Wait(cs, s) /\ scan' = [scans EXCEPT ![s] = NewScan(g)] /\ promise' = s

\* Calls cs ask for the list in generation g, when rows are cached: they get
\* these, or wait for the scan of this generation, which is s if they begin it.
Serve(cs, s, g, rows, scans) ==
  \/ /\ rows # NoRows
     /\ Give(cs, rows, extra) /\ scan' = scans /\ UNCHANGED promise
  \/ /\ rows = NoRows /\ promise # NoScan /\ scan[promise].gen = g
     /\ Wait(cs, promise) /\ scan' = scans /\ UNCHANGED promise
  \/ /\ rows = NoRows /\ (promise # NoScan => scan[promise].gen # g)
     /\ Wait(cs, s) /\ scan' = [scans EXCEPT ![s] = NewScan(g)] /\ promise' = s

\* Call c is made.
Call(c, kind, i) ==
  /\ Quiet /\ op[c] = "none"
  /\ \A d \in Callers : d < c => op[d] # "none"
  /\ op' = [op EXCEPT ![c] = kind]
  /\ about' = [about EXCEPT ![c] = i]

List(c) ==
  /\ Call(c, "list", NoId)
  /\ floor' = [floor EXCEPT ![c] = named]
  /\ dead' = [dead EXCEPT ![c] = gone]
  /\ Serve({c}, c, generation, cache, scan)
  /\ UNCHANGED <<fileVars, generation, cache, extra, found, known>>

\* A forced list has to show every file there is when it is called.
ForceList(c) ==
  /\ Call(c, "force", NoId)
  /\ floor' = [floor EXCEPT ![c] = disk]
  /\ dead' = [dead EXCEPT ![c] = gone]
  /\ generation' = generation + 1 /\ cache' = NoRows
  /\ Serve({c}, c, generation + 1, NoRows, scan)
  /\ UNCHANGED <<fileVars, extra, found, known>>

\* The cached list is older than SESSION_LIST_CACHE_TTL_MS.
Expire ==
  /\ Quiet /\ cache # NoRows
  /\ cache' = NoRows
  /\ UNCHANGED <<fileVars, callVars, generation, promise, scan, extra, found, known>>

(***************************************************************************)
(* A scan: SessionManager.listAll() reads the directory and the files,     *)
(* then the paths are cached and git is asked for the projects.            *)
(***************************************************************************)
OpenDir(s) ==
  /\ Quiet /\ scan[s].step = "opening"
  /\ scan' = [scan EXCEPT ![s] = [@ EXCEPT !.step = "reading", !.todo = Shown(disk)]]
  /\ UNCHANGED <<fileVars, callVars, generation, cache, promise, extra, found, known>>

ReadFile(s, i) ==
  /\ Quiet /\ scan[s].step = "reading" /\ i \in scan[s].todo
  /\ scan' = [scan EXCEPT ![s] =
       [@ EXCEPT !.todo = scan[s].todo \ {i},
                 !.seen = [scan[s].seen EXCEPT ![i] = disk[i]]]]
  /\ UNCHANGED <<fileVars, callVars, generation, cache, promise, extra, found, known>>

ScanListed(s) ==
  /\ Quiet /\ scan[s].step = "reading" /\ scan[s].todo = {}
  /\ scan' = [scan EXCEPT ![s].step = "listed"]
  /\ known' = known \cup Shown(scan[s].seen)
  /\ UNCHANGED <<fileVars, callVars, generation, cache, promise, extra, found>>

\* Mutant: sessions the scan found stay in the overlay.
ScanEnd_KeepsOverlay(s) ==
  /\ Quiet /\ scan[s].step = "listed"
  /\ UNCHANGED <<fileVars, generation, extra, known, op, about, floor, dead>>
  /\ \/ /\ scan[s].gen = generation
        /\ cache' = scan[s].seen
        /\ found' = found \cup Shown(scan[s].seen)
        /\ promise' = IF promise = s THEN NoScan ELSE promise
        /\ scan' = Ended(s)
        /\ Give(Waiting(s), scan[s].seen, {})
     \/ /\ scan[s].gen # generation
        /\ Serve(Waiting(s), s, generation, cache, Ended(s))
        /\ UNCHANGED <<cache, found>>

\* The scan is done: its callers have the result, or ask again if a rename, a
\* delete or a forced list came in between.
ScanEnd(s) ==
  /\ Quiet /\ scan[s].step = "listed"
  /\ UNCHANGED <<fileVars, generation, known, op, about, floor, dead>>
  /\ \/ /\ scan[s].gen = generation
        /\ cache' = scan[s].seen
        /\ extra' = extra \ Shown(scan[s].seen)
        /\ found' = found \cup Shown(scan[s].seen)
        /\ promise' = IF promise = s THEN NoScan ELSE promise
        /\ scan' = Ended(s)
        /\ Give(Waiting(s), scan[s].seen, {})
     \/ /\ scan[s].gen # generation
        /\ Serve(Waiting(s), s, generation, cache, Ended(s))
        /\ UNCHANGED <<cache, extra, found>>

\* listAll() rejects, and so does the promise its callers share.
ScanFails(s) ==
  /\ Quiet /\ s \in Active
  /\ scan' = Ended(s)
  /\ promise' = IF promise = s THEN NoScan ELSE promise
  /\ phase' = [c \in Callers |-> IF c \in Waiting(s) THEN "failed" ELSE phase[c]]
  /\ UNCHANGED <<fileVars, generation, cache, extra, found, known, op, about, on, answer, floor, dead>>

(***************************************************************************)
(* Renames and deletes.                                                    *)
(***************************************************************************)
Settle(c, how) ==
  phase' = [phase EXCEPT ![c] = how] /\ UNCHANGED <<on, answer, floor, dead>>

\* renameSession() once it has the path.  A session without a file has nothing
\* the name could be appended to, and the call succeeds.
RenameFile(c, i) ==
  /\ disk' = IF disk[i] = 0 THEN disk ELSE [disk EXCEPT ![i] = @ + 1]
  /\ named' = IF disk[i] = 0 THEN named ELSE [named EXCEPT ![i] = disk[i] + 1]
  /\ generation' = generation + 1 /\ cache' = NoRows
  /\ Settle(c, "returned")
  /\ UNCHANGED <<started, gone, promise, scan, extra, found, known>>

\* deleteSession() once it has the path: without a file it throws.
DeleteFile(c, i) ==
  \/ /\ disk[i] = 0
     /\ Settle(c, "failed")
     /\ UNCHANGED <<fileVars, listVars, extra, found, known>>
  \/ /\ disk[i] > 0
     /\ disk' = [disk EXCEPT ![i] = 0]
     /\ gone' = gone \cup {i}
     /\ known' = known \ {i}
     /\ generation' = generation + 1 /\ cache' = NoRows
     /\ Settle(c, "returned")
     /\ UNCHANGED <<started, named, promise, scan, extra, found>>

\* resolveSessionPath(): the cached path, or a list first.
Rename(c, i) ==
  /\ Call(c, "rename", i)
  /\ \/ i \in known /\ RenameFile(c, i)
     \/ /\ i \notin known
        /\ Serve({c}, c, generation, cache, scan)
        /\ UNCHANGED <<fileVars, generation, cache, extra, found, known, floor, dead>>

Delete(c, i) ==
  /\ Call(c, "delete", i)
  /\ \/ i \in known /\ DeleteFile(c, i)
     \/ /\ i \notin known
        /\ Serve({c}, c, generation, cache, scan)
        /\ UNCHANGED <<fileVars, generation, cache, extra, found, known, floor, dead>>

\* The list is there: the path is looked up again.
Resolved(c) ==
  /\ phase[c] = "ready" /\ UNCHANGED <<op, about>>
  /\ \/ about[c] \in known /\ op[c] = "rename" /\ RenameFile(c, about[c])
     \/ about[c] \in known /\ op[c] = "delete" /\ DeleteFile(c, about[c])
     \/ /\ about[c] \notin known
        /\ Settle(c, "not found")
        /\ UNCHANGED <<fileVars, listVars, extra, found, known>>

(***************************************************************************)
(* Sessions started here.                                                  *)
(***************************************************************************)

\* Mutant: the path of a new session is left to the next scan.
Start_NoPath(i) ==
  /\ Quiet /\ i \notin started
  /\ started' = started \cup {i}
  /\ extra' = extra \cup {i}
  /\ UNCHANGED <<disk, named, gone, callVars, listVars, found, known>>

\* What start() does last: the path is cached and the overlay has the session.
Start(i) ==
  /\ Quiet /\ i \notin started
  /\ started' = started \cup {i}
  /\ known' = known \cup {i}
  /\ extra' = extra \cup {i}
  /\ UNCHANGED <<disk, named, gone, callVars, listVars, found>>

\* The session writes its file with the first answer of the assistant.
FirstWrite(i) ==
  /\ Quiet /\ i \in started /\ disk[i] = 0 /\ i \notin gone
  /\ disk' = [disk EXCEPT ![i] = 1]
  /\ UNCHANGED <<started, named, gone, callVars, listVars, extra, found, known>>

ScanStep(s) ==
  OpenDir(s) \/ (\E i \in Ids : ReadFile(s, i)) \/ ScanListed(s) \/ ScanEnd(s)

Next ==
  \/ \E c \in Callers : List(c) \/ ForceList(c) \/ Resolved(c)
  \/ \E c \in Callers, i \in Ids : Rename(c, i) \/ Delete(c, i)
  \/ \E s \in Callers : ScanStep(s) \/ ScanFails(s)
  \/ \E i \in Born : Start(i) \/ FirstWrite(i)
  \/ Expire

\* The event loop runs what is ready, and the file reads of a scan complete.
Spec == /\ Init /\ [][Next]_vars
        /\ \A c \in Callers : WF_vars(Resolved(c)) /\ WF_vars(ScanStep(c))

(***************************************************************************)
(* Properties.                                                             *)
(***************************************************************************)

\* Call c returned with a list.
Listed(c) == op[c] \in {"list", "force"} /\ phase[c] = "returned"

\* A list shows every rename that returned before it was called and no session
\* whose delete did, and a forced one shows every file there was at the call,
\* whatever scan or cache it was answered from.  A session deleted meanwhile is
\* excused.  The overlay is part of the list: a deleted session is in it only if
\* no scan that counted had found its file before the delete.
ListIsFresh ==
  \A c \in Callers : Listed(c) =>
    /\ Shown(answer[c].rows) \cap dead[c] = {}
    /\ answer[c].transient \cap dead[c] \cap found = {}
    /\ \A i \in Ids \ gone : answer[c].rows[i] >= floor[c][i]

\* Callers share scans: one generation is never scanned twice at a time.
OneScanPerGeneration ==
  \A s, t \in Active : scan[s].gen = scan[t].gen => s = t

\* A session some list has shown, with a file or in the overlay, is found by
\* its id without another scan, until it is deleted.
ListedIsFound ==
  \A c \in Callers : phase[c] = "returned" =>
    Shown(answer[c].rows) \cup answer[c].transient \subseteq known \cup gone

\* Every call returns, also one whose scan was overtaken again and again: there
\* comes a time from when on no call that was made is without its end.
EveryCallReturns ==
  <>[](\A c \in Callers : op[c] # "none" => phase[c] \in Settled)
=============================================================================
