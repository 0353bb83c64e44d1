------------------------- MODULE SessionListProofs --------------------------
(***************************************************************************)
(* Proofs about SessionList, for any number of calls and sessions: its     *)
(* type invariant, that a generation is scanned once at a time, that a     *)
(* listed session is found, that no caller waits for a scan that is over,  *)
(* and that lists are fresh.                                               *)
(***************************************************************************)
EXTENDS SessionList, TLAPS

Scan == [step : {"idle", "opening", "reading", "listed"},
         gen : Nat, todo : SUBSET Ids, seen : Rows]
Scans == [Callers -> Scan]
Lists == [rows : Rows, transient : SUBSET Ids]

\* Scans of the generation that is current.
Current == {s \in Active : scan[s].gen = generation}

\* Of the scans sc only the one that may be joined, p, is of generation g, and
\* it is under way as long as no rows are cached.
Joins(p, sc, rows, g) ==
  /\ p # NoScan => sc[p].step # "idle"
  /\ rows # NoRows => p = NoScan
  /\ \A s \in Callers : sc[s].step # "idle" => sc[s].gen <= g /\ (sc[s].gen = g => p = s)
  /\ \A s, t \in Callers :
       sc[s].step # "idle" /\ sc[t].step # "idle" /\ sc[s].gen = sc[t].gen => s = t

Joining == Joins(promise, scan, cache, generation)

\* Whatever a list may be answered from is known by its path.
Finding ==
  /\ extra \subseteq known \cup gone
  /\ cache # NoRows => Shown(cache) \subseteq known \cup gone
  /\ \A s \in Callers : scan[s].step = "listed" =>
       scan[s].todo = {} /\ Shown(scan[s].seen) \subseteq known \cup gone
  /\ \A c \in Callers : Shown(answer[c].rows) \cup answer[c].transient \subseteq known \cup gone

\* The files, the cached list and the scans that count have versions f or
\* later of the sessions that are not deleted.
Reaches(f) ==
  \A i \in Ids \ gone :
    /\ disk[i] >= f[i]
    /\ cache # NoRows => cache[i] >= f[i]
    /\ \A s \in Current : scan[s].step = "opening" \/ i \in scan[s].todo \/ scan[s].seen[i] >= f[i]

\* They have nothing of the sessions that are.
Forgets ==
  \A i \in gone :
    /\ disk[i] = 0
    /\ cache # NoRows => cache[i] = 0
    /\ \A s \in Current : i \notin scan[s].todo /\ scan[s].seen[i] = 0

Lister(c) == op[c] \in {"list", "force"}

\* What a call that wants the list may rely on, and what it was given.
Fresh(c) ==
  Lister(c) =>
    /\ dead[c] \subseteq gone
    /\ phase[c] = "waiting" => Reaches(floor[c])
    /\ phase[c] = "returned" =>
         /\ Shown(answer[c].rows) \cap dead[c] = {}
         /\ \A i \in Ids \ gone : answer[c].rows[i] >= floor[c][i]

Freshness == Forgets /\ Reaches(named) /\ \A c \in Callers : Fresh(c)

-----------------------------------------------------------------------------
(* Type correctness.                                                       *)

Phases == {"none", "waiting", "ready"} \cup Settled

\* What a caller of listAllSessions() is left with has the right types.
LEMMA GiveTypes ==
  ASSUME TypeOK, NEW cs \in SUBSET Callers, NEW rows \in Rows, NEW others \in SUBSET Ids,
         Give(cs, rows, others)
  PROVE  /\ phase' \in [Callers -> Phases] /\ on' \in [Callers -> Callers \cup {NoScan}]
         /\ answer' \in [Callers -> Lists]
<1>1. \A c \in Callers : phase[c] \in Phases /\ answer[c] \in Lists
  BY DEF TypeOK, Phases, Lists
<1>2. [rows |-> rows, transient |-> others \ Shown(rows)] \in Lists
  BY DEF Lists
<1>3. phase' \in [Callers -> Phases]
  BY <1>1 DEF Give, Phases, Settled
<1>4. answer' \in [Callers -> Lists]
  BY <1>1, <1>2 DEF Give
<1> QED
  BY <1>3, <1>4 DEF Give, TypeOK

LEMMA WaitTypes ==
  ASSUME TypeOK, NEW cs \in SUBSET Callers, NEW s \in Callers, Wait(cs, s)
  PROVE  /\ phase' \in [Callers -> Phases] /\ on' \in [Callers -> Callers \cup {NoScan}]
         /\ answer' \in [Callers -> Lists]
BY DEF Wait, TypeOK, Phases, Lists

LEMMA ScanTypes ==
  /\ IdleScan \in Scan
  /\ IdleScan.step = "idle"
  /\ \A g \in Nat : NewScan(g) \in Scan
  /\ TypeOK => \A s \in Callers : Ended(s) \in Scans
<1>1. NoFiles \in Rows
  BY DEF NoFiles, Rows
<1>2. \A g \in Nat : NewScan(g) \in Scan
  BY <1>1 DEF NewScan, Scan
<1>3. IdleScan = [step |-> "idle", gen |-> 0, todo |-> {}, seen |-> NoFiles]
  BY DEF IdleScan, NewScan
<1> QED
  BY <1>1, <1>2, <1>3 DEF Ended, TypeOK, Scans, Scan

LEMMA ServeTypes ==
  ASSUME TypeOK, NEW cs \in SUBSET Callers, NEW s \in Callers, NEW g \in Nat,
         NEW rows \in Rows \cup {NoRows}, NEW scans \in Scans, Serve(cs, s, g, rows, scans)
  PROVE  /\ phase' \in [Callers -> Phases] /\ on' \in [Callers -> Callers \cup {NoScan}]
         /\ answer' \in [Callers -> Lists]
         /\ scan' \in Scans /\ promise' \in Callers \cup {NoScan}
<1>1. CASE rows # NoRows /\ Give(cs, rows, extra) /\ scan' = scans /\ UNCHANGED promise
  <2>1. rows \in Rows /\ extra \in SUBSET Ids
    BY <1>1 DEF TypeOK
  <2> QED
    BY <1>1, <2>1, GiveTypes DEF TypeOK
<1>2. CASE promise # NoScan /\ Wait(cs, promise) /\ scan' = scans /\ UNCHANGED promise
  BY <1>2, WaitTypes DEF TypeOK
<1>3. CASE /\ Wait(cs, s) /\ scan' = [scans EXCEPT ![s] = NewScan(g)] /\ promise' = s
  BY <1>3, WaitTypes, ScanTypes DEF TypeOK, Scans, Scan
<1> QED
  BY <1>1, <1>2, <1>3 DEF Serve

THEOREM TypeCorrect == Spec => []TypeOK
<1>1. Init => TypeOK
  BY ListAssumption, ScanTypes DEF Init, TypeOK, Scan, Rows, NoFiles, Settled
<1>2. ASSUME TypeOK, [Next]_vars PROVE TypeOK'
  <2> USE <1>2
  <2>0. /\ scan \in Scans /\ generation + 1 \in Nat /\ NoRows \in Rows \cup {NoRows}
        /\ disk \in [Ids -> Nat] /\ \A s \in Callers : scan[s] \in Scan
    BY DEF TypeOK, Scans, Scan, Rows
  <2>1. ASSUME NEW c \in Callers, List(c) PROVE TypeOK'
    <3>1. /\ phase' \in [Callers -> Phases] /\ on' \in [Callers -> Callers \cup {NoScan}]
          /\ answer' \in [Callers -> Lists] /\ scan' \in Scans
          /\ promise' \in Callers \cup {NoScan}
      BY <2>0, <2>1, ServeTypes DEF List, TypeOK
    <3> QED
      BY <2>1, <3>1 DEF List, Call, TypeOK, Phases, Lists, Scans, Scan, fileVars
  <2>2. ASSUME NEW c \in Callers, ForceList(c) PROVE TypeOK'
    <3>1. /\ phase' \in [Callers -> Phases] /\ on' \in [Callers -> Callers \cup {NoScan}]
          /\ answer' \in [Callers -> Lists] /\ scan' \in Scans
          /\ promise' \in Callers \cup {NoScan}
      BY <2>0, <2>2, ServeTypes DEF ForceList
    <3> QED
      BY <2>0, <2>2, <3>1 DEF ForceList, Call, TypeOK, Phases, Lists, Scans, Scan, fileVars
  <2>3. ASSUME NEW c \in Callers, NEW i \in Ids, RenameFile(c, i) PROVE
               /\ disk' \in Rows /\ named' \in Rows /\ gone' \in SUBSET Ids
               /\ generation' \in Nat /\ cache' \in Rows \cup {NoRows}
               /\ promise' = promise /\ scan' = scan
               /\ extra' \in SUBSET Ids /\ found' \in SUBSET Ids /\ known' \in SUBSET Ids
               /\ phase' \in [Callers -> Phases]
               /\ UNCHANGED <<started, on, answer, floor, dead>>
    <3>1. /\ disk' \in Rows /\ named' \in Rows
      BY <2>3 DEF RenameFile, TypeOK, Rows
    <3>2. phase' \in [Callers -> Phases]
      BY <2>3 DEF RenameFile, Settle, TypeOK, Phases, Settled
    <3> QED
      BY <2>0, <2>3, <3>1, <3>2 DEF RenameFile, Settle, TypeOK
  <2>4. ASSUME NEW c \in Callers, NEW i \in Ids, DeleteFile(c, i) PROVE
               /\ disk' \in Rows /\ named' \in Rows /\ gone' \in SUBSET Ids
               /\ generation' \in Nat /\ cache' \in Rows \cup {NoRows}
               /\ promise' = promise /\ scan' = scan
               /\ extra' \in SUBSET Ids /\ found' \in SUBSET Ids /\ known' \in SUBSET Ids
               /\ phase' \in [Callers -> Phases]
               /\ UNCHANGED <<started, on, answer, floor, dead>>
    <3>0. disk' = disk \/ disk' = [disk EXCEPT ![i] = 0]
      BY <2>4 DEF DeleteFile, fileVars
    <3>1. disk' \in Rows
      BY <2>0, <3>0 DEF Rows
    <3>2. phase' \in [Callers -> Phases]
      BY <2>4 DEF DeleteFile, Settle, TypeOK, Phases, Settled
    <3> QED
      BY <2>0, <2>4, <3>1, <3>2 DEF DeleteFile, Settle, TypeOK, fileVars, listVars
  <2>5. ASSUME NEW c \in Callers, NEW i \in Ids, Rename(c, i) PROVE TypeOK'
    <3>1. CASE RenameFile(c, i)
      BY <2>3, <2>5, <3>1 DEF Rename, Call, TypeOK, Phases
    <3>2. CASE /\ Serve({c}, c, generation, cache, scan)
               /\ UNCHANGED <<fileVars, generation, cache, extra, found, known, floor, dead>>
      <4>1. /\ phase' \in [Callers -> Phases] /\ on' \in [Callers -> Callers \cup {NoScan}]
            /\ answer' \in [Callers -> Lists] /\ scan' \in Scans
            /\ promise' \in Callers \cup {NoScan}
        BY <2>0, <3>2, ServeTypes DEF TypeOK
      <4>2. /\ op' \in [Callers -> {"none", "list", "force", "rename", "delete"}]
            /\ about' \in [Callers -> Ids \cup {NoId}]
        BY <2>5 DEF Rename, Call, TypeOK
      <4> QED
        BY <3>2, <4>1, <4>2 DEF TypeOK, Phases, Lists, Scans, Scan, fileVars
    <3> QED
      BY <2>5, <3>1, <3>2 DEF Rename
  <2>6. ASSUME NEW c \in Callers, NEW i \in Ids, Delete(c, i) PROVE TypeOK'
    <3>1. CASE DeleteFile(c, i)
      BY <2>4, <2>6, <3>1 DEF Delete, Call, TypeOK, Phases
    <3>2. CASE /\ Serve({c}, c, generation, cache, scan)
               /\ UNCHANGED <<fileVars, generation, cache, extra, found, known, floor, dead>>
      <4>1. /\ phase' \in [Callers -> Phases] /\ on' \in [Callers -> Callers \cup {NoScan}]
            /\ answer' \in [Callers -> Lists] /\ scan' \in Scans
            /\ promise' \in Callers \cup {NoScan}
        BY <2>0, <3>2, ServeTypes DEF TypeOK
      <4>2. /\ op' \in [Callers -> {"none", "list", "force", "rename", "delete"}]
            /\ about' \in [Callers -> Ids \cup {NoId}]
        BY <2>6 DEF Delete, Call, TypeOK
      <4> QED
        BY <3>2, <4>1, <4>2 DEF TypeOK, Phases, Lists, Scans, Scan, fileVars
    <3> QED
      BY <2>6, <3>1, <3>2 DEF Delete
  <2>7. ASSUME NEW c \in Callers, Resolved(c) PROVE TypeOK'
    <3>1. CASE about[c] \in known /\ RenameFile(c, about[c])
      <4>1. about[c] \in Ids
        BY <3>1 DEF TypeOK
      <4>2. /\ disk' \in Rows /\ named' \in Rows /\ gone' \in SUBSET Ids
            /\ generation' \in Nat /\ cache' \in Rows \cup {NoRows}
            /\ promise' = promise /\ scan' = scan
            /\ extra' \in SUBSET Ids /\ found' \in SUBSET Ids /\ known' \in SUBSET Ids
            /\ phase' \in [Callers -> Phases]
            /\ UNCHANGED <<started, on, answer, floor, dead>>
        BY <2>3, <3>1, <4>1
      <4>3. UNCHANGED <<op, about>>
        BY <2>7 DEF Resolved
      <4> QED
        BY <4>2, <4>3 DEF TypeOK, Phases
    <3>2. CASE about[c] \in known /\ DeleteFile(c, about[c])
      <4>1. about[c] \in Ids
        BY <3>2 DEF TypeOK
      <4>2. /\ disk' \in Rows /\ named' \in Rows /\ gone' \in SUBSET Ids
            /\ generation' \in Nat /\ cache' \in Rows \cup {NoRows}
            /\ promise' = promise /\ scan' = scan
            /\ extra' \in SUBSET Ids /\ found' \in SUBSET Ids /\ known' \in SUBSET Ids
            /\ phase' \in [Callers -> Phases]
            /\ UNCHANGED <<started, on, answer, floor, dead>>
        BY <2>4, <3>2, <4>1
      <4>3. UNCHANGED <<op, about>>
        BY <2>7 DEF Resolved
      <4> QED
        BY <4>2, <4>3 DEF TypeOK, Phases
    <3>3. CASE Settle(c, "not found") /\ UNCHANGED <<fileVars, listVars, extra, found, known>>
      BY <2>7, <3>3 DEF Resolved, Settle, Settled, TypeOK, fileVars, listVars
    <3> QED
      BY <2>7, <3>1, <3>2, <3>3 DEF Resolved
  <2>8. ASSUME NEW i \in Born, Start(i) PROVE TypeOK'
    BY <2>8, ListAssumption DEF Start, TypeOK, callVars, listVars
  <2>9. ASSUME NEW s \in Callers, OpenDir(s) PROVE TypeOK'
    <3>1. PICK r : r = [scan[s] EXCEPT !.step = "reading", !.todo = Shown(disk)]
      OBVIOUS
    <3>2. r \in Scan
      BY <2>0, <3>1 DEF Scan, Shown
    <3>3. scan' = [scan EXCEPT ![s] = r]
      BY <2>9, <3>1 DEF OpenDir
    <3>4. scan' \in Scans
      BY <3>2, <3>3 DEF TypeOK, Scans, Scan
    <3> QED
      BY <2>9, <3>4 DEF OpenDir, TypeOK, Scans, Scan, fileVars, callVars
  <2>10. ASSUME NEW s \in Callers, NEW i \in Ids, ReadFile(s, i) PROVE TypeOK'
    <3>1. PICK seen : seen = [scan[s].seen EXCEPT ![i] = disk[i]]
      OBVIOUS
    <3>2. seen \in Rows
      BY <3>1 DEF TypeOK, Rows
    <3>3. PICK r : r = [scan[s] EXCEPT !.todo = scan[s].todo \ {i}, !.seen = seen]
      OBVIOUS
    <3>4. scan' = [scan EXCEPT ![s] = r]
      BY <2>0, <2>10, <3>1, <3>3 DEF ReadFile, Scan
    <3>5. r \in Scan
      BY <2>0, <3>2, <3>3 DEF Scan
    <3>6. scan' \in Scans
      BY <3>4, <3>5 DEF TypeOK, Scans, Scan
    <3> QED
      BY <2>10, <3>6 DEF ReadFile, TypeOK, Scans, Scan, fileVars, callVars
  <2>11. ASSUME NEW s \in Callers, ScanListed(s) PROVE TypeOK'
    <3>1. PICK r : r = [scan[s] EXCEPT !.step = "listed"]
      OBVIOUS
    <3>2. r \in Scan
      BY <2>0, <3>1 DEF Scan
    <3>3. scan' = [scan EXCEPT ![s] = r]
      BY <2>0, <2>11, <3>1 DEF ScanListed, Scan
    <3>4. scan' \in Scans
      BY <3>2, <3>3 DEF TypeOK, Scans, Scan
    <3>5. Shown(scan[s].seen) \subseteq Ids
      BY DEF Shown
    <3> QED
      BY <2>11, <3>4, <3>5 DEF ScanListed, TypeOK, Scans, Scan, fileVars, callVars
  <2>12. ASSUME NEW s \in Callers, ScanEnd(s) PROVE TypeOK'
    <3>1. /\ scan[s].seen \in Rows /\ Waiting(s) \in SUBSET Callers /\ {} \in SUBSET Ids
          /\ Ended(s) \in Scans /\ generation \in Nat
      BY ScanTypes DEF TypeOK, Waiting
    <3>2. CASE scan[s].gen = generation
      <4>1. /\ phase' \in [Callers -> Phases] /\ on' \in [Callers -> Callers \cup {NoScan}]
            /\ answer' \in [Callers -> Lists]
        BY <2>12, <3>1, <3>2, GiveTypes DEF ScanEnd
      <4>2. found' \in SUBSET Ids /\ extra' \in SUBSET Ids
        BY <2>12, <3>2 DEF ScanEnd, TypeOK, Shown
      <4> QED
        BY <2>12, <3>1, <3>2, <4>1, <4>2 DEF ScanEnd, TypeOK, Phases, Lists, Scans, Scan, fileVars
    <3>3. CASE scan[s].gen # generation
      <4>1. /\ phase' \in [Callers -> Phases] /\ on' \in [Callers -> Callers \cup {NoScan}]
            /\ answer' \in [Callers -> Lists] /\ scan' \in Scans
            /\ promise' \in Callers \cup {NoScan}
        BY <2>12, <3>1, <3>3, ServeTypes DEF ScanEnd, TypeOK
      <4> QED
        BY <2>12, <3>3, <4>1 DEF ScanEnd, TypeOK, Phases, Lists, Scans, Scan, fileVars
    <3> QED
      BY <3>2, <3>3
  <2>13. ASSUME NEW s \in Callers, ScanFails(s) PROVE TypeOK'
    BY <2>13, ScanTypes DEF ScanFails, TypeOK, Settled, Scans, Scan, fileVars
  <2>14. ASSUME NEW i \in Born, FirstWrite(i) PROVE TypeOK'
    BY <2>14, ListAssumption DEF FirstWrite, TypeOK, Rows, callVars, listVars
  <2>15. CASE Expire
    BY <2>15 DEF Expire, TypeOK, fileVars, callVars
  <2>16. CASE UNCHANGED vars
    BY <2>16 DEF vars, fileVars, callVars, listVars, TypeOK
  <2> QED
    BY <2>1, <2>2, <2>5, <2>6, <2>7, <2>8, <2>9, <2>10, <2>11, <2>12, <2>13, <2>14, <2>15,
       <2>16, Zenon DEF Next, ScanStep
<1> QED
  BY <1>1, <1>2, PTL DEF Spec

-----------------------------------------------------------------------------
(* One scan per generation.                                                *)

\* A caller that begins a scan begins the only one of its generation.
LEMMA ServeJoins ==
  ASSUME TypeOK, NEW cs \in SUBSET Callers, NEW s \in Callers, NEW g \in Nat,
         NEW rows \in Rows \cup {NoRows}, NEW scans \in Scans, Serve(cs, s, g, rows, scans),
         \A t \in Callers \ {s} : scans[t] = scan[t],
         promise # NoScan /\ scan[promise].gen = g => scans[promise].step # "idle",
         rows # NoRows => promise = NoScan,
         \A t \in Callers : scans[t].step # "idle" =>
           scans[t].gen <= g /\ (scans[t].gen = g => promise = t /\ scan[t].gen = g),
         \A t, u \in Callers :
           scans[t].step # "idle" /\ scans[u].step # "idle" /\ scans[t].gen = scans[u].gen => t = u
  PROVE  Joins(promise', scan', rows, g)
<1>1. CASE rows # NoRows /\ scan' = scans /\ UNCHANGED promise
  BY <1>1 DEF Joins
<1>2. CASE /\ rows = NoRows /\ promise # NoScan /\ scan[promise].gen = g
           /\ scan' = scans /\ UNCHANGED promise
  BY <1>2 DEF Joins
<1>3. CASE /\ rows = NoRows /\ (promise # NoScan => scan[promise].gen # g)
           /\ scan' = [scans EXCEPT ![s] = NewScan(g)] /\ promise' = s
  <2>1. /\ scan'[s].step = "opening" /\ scan'[s].gen = g
        /\ \A t \in Callers \ {s} : scan'[t] = scans[t]
    BY <1>3 DEF NewScan, Scans
  <2>2. \A t \in Callers \ {s} : scans[t].step # "idle" => scans[t].gen # g
    BY <1>3, ListAssumption
  <2> QED
    BY <1>3, <2>1, <2>2, ListAssumption DEF Joins
<1> QED
  BY <1>1, <1>2, <1>3 DEF Serve

\* Scans that go on, and scans that end, disturb nothing.
LEMMA ScansJoin ==
  ASSUME TypeOK, Joining, UNCHANGED <<generation, promise>>, cache' \in {cache, NoRows},
         \A t \in Callers : /\ scan'[t].gen = scan[t].gen
                            /\ scan'[t].step = "idle" <=> scan[t].step = "idle"
  PROVE  Joining'
BY DEF Joining, Joins, TypeOK

LEMMA EndJoins ==
  ASSUME TypeOK, Joining, NEW s \in Callers, UNCHANGED generation, scan' = Ended(s),
         promise' = IF promise = s THEN NoScan ELSE promise,
         \/ UNCHANGED cache
         \/ s \in Active /\ scan[s].gen = generation
  PROVE  Joining'
<1>1. /\ scan'[s].step = "idle" /\ \A t \in Callers \ {s} : scan'[t] = scan[t]
  BY ScanTypes DEF Ended, TypeOK
<1>2. \A t \in Callers : scan'[t].step # "idle" => t # s /\ scan'[t] = scan[t]
  BY <1>1
<1>3. promise' # NoScan => scan'[promise'].step # "idle"
  <2>1. promise' # NoScan => promise' = promise /\ promise' \in Callers \ {s}
    BY DEF TypeOK
  <2>2. promise # NoScan => scan[promise].step # "idle"
    BY DEF Joining, Joins
  <2> QED
    BY <1>1, <2>1, <2>2
<1>4. cache' # NoRows => promise' = NoScan
  BY DEF Joining, Joins, Active
<1>5. ASSUME NEW t \in Callers, scan'[t].step # "idle"
      PROVE  scan'[t].gen <= generation /\ (scan'[t].gen = generation => promise' = t)
  BY <1>2, <1>5 DEF Joining, Joins
<1>6. ASSUME NEW t \in Callers, NEW u \in Callers, scan'[t].step # "idle", scan'[u].step # "idle",
             scan'[t].gen = scan'[u].gen
      PROVE  t = u
  BY <1>2, <1>6 DEF Joining, Joins
<1> QED
  BY <1>3, <1>4, <1>5, <1>6 DEF Joining, Joins

\* A new generation is that of no scan.
LEMMA RaiseJoins ==
  ASSUME TypeOK, Joining, UNCHANGED <<promise, scan>>, generation' = generation + 1,
         cache' = NoRows
  PROVE  Joining'
BY DEF Joining, Joins, TypeOK

\* At any time one scan is under way of each generation, and only that of the
\* current one can be joined.
LEMMA JoiningInductive ==
  ASSUME TypeOK, Joining, [Next]_vars
  PROVE  Joining'
<1>0. scan \in Scans /\ generation \in Nat /\ cache \in Rows \cup {NoRows}
  BY DEF TypeOK, Scans, Scan
<1>1. ASSUME NEW c \in Callers, Serve({c}, c, generation, cache, scan),
             UNCHANGED <<generation, cache>>
      PROVE  Joining'
  <2>1. Joins(promise', scan', cache, generation)
    BY <1>0, <1>1, ServeJoins DEF Joining, Joins
  <2> QED
    BY <1>1, <2>1 DEF Joining, Joins
<1>2. ASSUME NEW c \in Callers, NEW i \in Ids, RenameFile(c, i) PROVE Joining'
  BY <1>2, RaiseJoins DEF RenameFile
<1>3. ASSUME NEW c \in Callers, NEW i \in Ids, DeleteFile(c, i) PROVE Joining'
  BY <1>3, RaiseJoins, ScansJoin DEF DeleteFile, listVars
<1>4. ASSUME NEW c \in Callers, List(c) PROVE Joining'
  BY <1>1, <1>4 DEF List
<1>5. ASSUME NEW c \in Callers, ForceList(c) PROVE Joining'
  <2>1. /\ generation + 1 \in Nat /\ NoRows \in Rows \cup {NoRows}
        /\ \A t \in Callers : scan[t].step # "idle" => scan[t].gen <= generation
        /\ \A t \in Callers : scan[t].gen \in Nat
    BY <1>0 DEF Joining, Joins, TypeOK
  <2>2. Joins(promise', scan', NoRows, generation + 1)
    <3>1. \A t \in Callers : scan[t].step # "idle" =>
            scan[t].gen <= generation + 1 /\ scan[t].gen # generation + 1
      BY <1>0, <2>1
    <3>2. /\ promise # NoScan => scan[promise].step # "idle"
          /\ \A t, u \in Callers : scan[t].step # "idle" /\ scan[u].step # "idle"
                                  /\ scan[t].gen = scan[u].gen => t = u
      BY DEF Joining, Joins
    <3>3. Serve({c}, c, generation + 1, NoRows, scan)
      BY <1>5 DEF ForceList
    <3> QED
      BY <1>0, <2>1, <3>1, <3>2, <3>3, ServeJoins
  <2> QED
    BY <1>5, <2>2 DEF ForceList, Joining, Joins
<1>6. ASSUME NEW c \in Callers, NEW i \in Ids, Rename(c, i) PROVE Joining'
  BY <1>1, <1>2, <1>6 DEF Rename
<1>7. ASSUME NEW c \in Callers, NEW i \in Ids, Delete(c, i) PROVE Joining'
  BY <1>1, <1>3, <1>7 DEF Delete
<1>8. ASSUME NEW c \in Callers, Resolved(c) PROVE Joining'
  <2>1. about[c] \in known => about[c] \in Ids
    BY DEF TypeOK
  <2>2. UNCHANGED listVars => Joining'
    BY DEF listVars, Joining, Joins
  <2> QED
    BY <1>2, <1>3, <1>8, <2>1, <2>2 DEF Resolved
<1>9. ASSUME NEW s \in Callers, OpenDir(s) PROVE Joining'
  BY <1>9, ScansJoin DEF OpenDir, TypeOK
<1>10. ASSUME NEW s \in Callers, NEW i \in Ids, ReadFile(s, i) PROVE Joining'
  BY <1>10, ScansJoin DEF ReadFile, TypeOK
<1>11. ASSUME NEW s \in Callers, ScanListed(s) PROVE Joining'
  BY <1>11, ScansJoin DEF ScanListed, TypeOK
<1>12. ASSUME NEW s \in Callers, ScanEnd(s) PROVE Joining'
  <2>1. CASE scan[s].gen = generation
    BY <1>12, <2>1, EndJoins DEF ScanEnd, Active
  <2>2. CASE scan[s].gen # generation
    <3>1. /\ Ended(s) \in Scans /\ Waiting(s) \in SUBSET Callers
          /\ Ended(s)[s].step = "idle" /\ \A t \in Callers \ {s} : Ended(s)[t] = scan[t]
      BY ScanTypes DEF Waiting, Ended, TypeOK
    <3>2. Serve(Waiting(s), s, generation, cache, Ended(s)) /\ UNCHANGED <<generation, cache>>
      BY <1>12, <2>2 DEF ScanEnd
    <3>3. promise # NoScan /\ scan[promise].gen = generation => Ended(s)[promise].step # "idle"
      BY <2>2, <3>1 DEF Joining, Joins, TypeOK
    <3>4. Joins(promise', scan', cache, generation)
      <4>1. /\ cache # NoRows => promise = NoScan
            /\ \A t \in Callers : Ended(s)[t].step # "idle" => t # s /\ Ended(s)[t] = scan[t]
        BY <3>1 DEF Joining, Joins
      <4>2. /\ \A t \in Callers : Ended(s)[t].step # "idle" =>
                 /\ Ended(s)[t].gen <= generation
                 /\ Ended(s)[t].gen = generation => promise = t /\ scan[t].gen = generation
            /\ \A t, u \in Callers : Ended(s)[t].step # "idle" /\ Ended(s)[u].step # "idle"
                                    /\ Ended(s)[t].gen = Ended(s)[u].gen => t = u
        BY <4>1 DEF Joining, Joins
      <4> QED
        BY <1>0, <3>1, <3>2, <3>3, <4>1, <4>2, ServeJoins
    <3> QED
      BY <3>2, <3>4 DEF Joining, Joins
  <2> QED
    BY <2>1, <2>2
<1>13. ASSUME NEW s \in Callers, ScanFails(s) PROVE Joining'
  BY <1>13, EndJoins DEF ScanFails
<1>14. CASE Expire
  BY <1>14, ScansJoin DEF Expire
<1>15. ASSUME UNCHANGED listVars PROVE Joining'
  BY <1>15 DEF listVars, Joining, Joins
<1>16. /\ \A i \in Born : Start(i) => UNCHANGED listVars
       /\ \A i \in Born : FirstWrite(i) => UNCHANGED listVars
       /\ UNCHANGED vars => UNCHANGED listVars
  BY DEF Start, FirstWrite, vars
<1> QED
  BY <1>4, <1>5, <1>6, <1>7, <1>8, <1>9, <1>10, <1>11, <1>12, <1>13, <1>14, <1>15, <1>16,
     Zenon DEF Next, ScanStep

\* Callers never scan one generation twice at a time.
THEOREM OneScan == Spec => []OneScanPerGeneration
<1>1. Init => Joining
  BY ListAssumption, ScanTypes DEF Init, Joining, Joins
<1>2. TypeOK /\ Joining => OneScanPerGeneration
  BY DEF Joining, Joins, OneScanPerGeneration, Active
<1> QED
  BY <1>1, <1>2, TypeCorrect, JoiningInductive, PTL DEF Spec

-----------------------------------------------------------------------------
(* No caller is left behind.                                               *)

\* The calls that wait in ph for the scans named in w have one under way in sc.
Served(ph, w, sc) ==
  \A c \in Callers : ph[c] = "waiting" => w[c] # NoScan /\ sc[w[c]].step # "idle"

\* A call waits for a scan that is under way and is about to resume it, whether
\* it joined the scan, was moved there when its own was overtaken, or began it.
WaitersHaveAScan == Served(phase, on, scan)

\* A call that listAllSessions() serves waits for the scan it joins or begins,
\* and takes no scan from the others.
LEMMA ServeServes ==
  ASSUME TypeOK, Joining, WaitersHaveAScan,
         NEW cs \in SUBSET Callers, NEW s \in Callers, NEW g \in Nat,
         NEW rows \in Rows \cup {NoRows}, NEW scans \in Scans, Serve(cs, s, g, rows, scans),
         op' \in [Callers -> {"none", "list", "force", "rename", "delete", "start"}],
         \A t \in Callers \ {s} : scans[t] = scan[t],
         scans[s] = scan[s] \/ (Waiting(s) \subseteq cs /\ (promise = s => scan[s].gen # g))
  PROVE  WaitersHaveAScan'
<1>1. /\ promise \in Callers \cup {NoScan} /\ on \in [Callers -> Callers \cup {NoScan}]
      /\ promise # NoScan => scan[promise].step # "idle"
  BY DEF TypeOK, Joining, Joins
<1>2. ASSUME NEW d \in Callers, phase[d] = "waiting", d \notin cs
      PROVE  on[d] \in Callers /\ scans[on[d]] = scan[on[d]] /\ scan[on[d]].step # "idle"
  BY <1>1, <1>2 DEF WaitersHaveAScan, Served, Waiting
<1>3. CASE /\ Give(cs, rows, extra) /\ scan' = scans
  <2>1. ASSUME NEW d \in Callers, phase'[d] = "waiting" PROVE d \notin cs /\ phase[d] = "waiting"
    BY <1>3, <2>1 DEF Give
  <2> QED
    BY <1>2, <1>3, <2>1, ListAssumption DEF Give, WaitersHaveAScan, Served
<1>4. CASE /\ promise # NoScan /\ scan[promise].gen = g
           /\ Wait(cs, promise) /\ scan' = scans
  <2>1. promise \in Callers /\ scans[promise].step # "idle"
    BY <1>1, <1>4
  <2>2. ASSUME NEW d \in Callers, phase'[d] = "waiting"
        PROVE  on'[d] # NoScan /\ scan'[on'[d]].step # "idle"
    BY <1>2, <1>4, <2>1, <2>2, ListAssumption DEF Wait
  <2> QED
    BY <2>2 DEF WaitersHaveAScan, Served
<1>5. CASE /\ Wait(cs, s) /\ scan' = [scans EXCEPT ![s] = NewScan(g)]
  <2>1. scan'[s].step = "opening" /\ \A t \in Callers \ {s} : scan'[t] = scans[t]
    BY <1>5 DEF NewScan, Scans
  <2>2. ASSUME NEW d \in Callers, phase'[d] = "waiting"
        PROVE  on'[d] # NoScan /\ scan'[on'[d]].step # "idle"
    BY <1>2, <1>5, <2>1, <2>2, ListAssumption DEF Wait
  <2> QED
    BY <2>2 DEF WaitersHaveAScan, Served
<1> QED
  BY <1>3, <1>4, <1>5 DEF Serve

LEMMA ServedInductive ==
  ASSUME TypeOK, TypeOK', Joining, WaitersHaveAScan, [Next]_vars
  PROVE  WaitersHaveAScan'
<1>0. scan \in Scans /\ generation \in Nat /\ generation + 1 \in Nat
      /\ cache \in Rows \cup {NoRows} /\ NoRows \in Rows \cup {NoRows}
      /\ op' \in [Callers -> {"none", "list", "force", "rename", "delete", "start"}]
  BY DEF TypeOK, Scans, Scan
<1>1. ASSUME NEW c \in Callers, NEW g \in Nat, NEW rows \in Rows \cup {NoRows},
             Serve({c}, c, g, rows, scan)
      PROVE  WaitersHaveAScan'
  BY <1>0, <1>1, ServeServes
\* One call has its result, and the scans are as they were.
<1>2. ASSUME NEW c \in Callers, NEW how \in Settled, Settle(c, how), UNCHANGED scan
      PROVE  WaitersHaveAScan'
  <2>1. \A d \in Callers : phase'[d] = "waiting" => phase[d] = "waiting"
    BY <1>2 DEF Settle, Settled, TypeOK
  <2> QED
    BY <1>2, <2>1 DEF Settle, WaitersHaveAScan, Served
<1>3. ASSUME NEW c \in Callers, NEW i \in Ids, RenameFile(c, i) PROVE WaitersHaveAScan'
  BY <1>2, <1>3 DEF RenameFile, Settled
<1>4. ASSUME NEW c \in Callers, NEW i \in Ids, DeleteFile(c, i) PROVE WaitersHaveAScan'
  BY <1>2, <1>4 DEF DeleteFile, Settled, listVars
<1>5. ASSUME NEW c \in Callers, List(c) PROVE WaitersHaveAScan'
  BY <1>0, <1>1, <1>5 DEF List
<1>6. ASSUME NEW c \in Callers, ForceList(c) PROVE WaitersHaveAScan'
  BY <1>0, <1>1, <1>6 DEF ForceList
<1>7. ASSUME NEW c \in Callers, NEW i \in Ids, Rename(c, i) PROVE WaitersHaveAScan'
  BY <1>0, <1>1, <1>3, <1>7 DEF Rename
<1>8. ASSUME NEW c \in Callers, NEW i \in Ids, Delete(c, i) PROVE WaitersHaveAScan'
  BY <1>0, <1>1, <1>4, <1>8 DEF Delete
<1>9. ASSUME NEW c \in Callers, Resolved(c) PROVE WaitersHaveAScan'
  <2>1. about[c] \in known => about[c] \in Ids
    BY DEF TypeOK
  <2> QED
    BY <1>2, <1>3, <1>4, <1>9, <2>1 DEF Resolved, Settled, listVars
<1>10. ASSUME NEW i \in Born, Start(i) PROVE WaitersHaveAScan'
  BY <1>10 DEF Start, callVars, listVars, WaitersHaveAScan, Served
\* A scan goes on.
<1>11. ASSUME UNCHANGED <<phase, on>>,
              \A t \in Callers : scan[t].step # "idle" => scan'[t].step # "idle"
       PROVE  WaitersHaveAScan'
  BY <1>11 DEF WaitersHaveAScan, Served, TypeOK
<1>12. ASSUME NEW s \in Callers, OpenDir(s) \/ (\E i \in Ids : ReadFile(s, i)) \/ ScanListed(s)
       PROVE  WaitersHaveAScan'
  <2>1. scan'[s].step \in {"reading", "listed"} /\ \A t \in Callers \ {s} : scan'[t] = scan[t]
    BY <1>0, <1>12 DEF OpenDir, ReadFile, ScanListed, Scans, Scan
  <2> QED
    BY <1>11, <1>12, <2>1 DEF OpenDir, ReadFile, ScanListed, callVars
\* A scan ends: nobody else waits for it.
<1>13. ASSUME NEW s \in Callers, ScanEnd(s) PROVE WaitersHaveAScan'
  <2>1. /\ Ended(s) \in Scans /\ Waiting(s) \in SUBSET Callers
        /\ \A t \in Callers \ {s} : Ended(s)[t] = scan[t]
    BY ScanTypes DEF Waiting, Ended, TypeOK
  <2>2. CASE scan[s].gen = generation
    <3>1. scan' = Ended(s) /\ Give(Waiting(s), scan[s].seen, {})
      BY <1>13, <2>2 DEF ScanEnd
    <3>2. ASSUME NEW d \in Callers, phase'[d] = "waiting"
          PROVE  on'[d] # NoScan /\ scan'[on'[d]].step # "idle"
      <4>1. d \notin Waiting(s) /\ phase[d] = "waiting" /\ on'[d] = on[d]
        BY <3>1, <3>2 DEF Give
      <4>2. on[d] \in Callers \ {s} /\ scan[on[d]].step # "idle"
        BY <4>1 DEF Waiting, TypeOK, WaitersHaveAScan, Served
      <4> QED
        BY <2>1, <3>1, <4>1, <4>2, ListAssumption
    <3> QED
      BY <3>2 DEF WaitersHaveAScan, Served
  <2>3. CASE scan[s].gen # generation
    <3>1. Serve(Waiting(s), s, generation, cache, Ended(s))
      BY <1>13, <2>3 DEF ScanEnd
    <3> QED
      BY <1>0, <2>1, <2>3, <3>1, ServeServes
  <2> QED
    BY <2>2, <2>3
<1>14. ASSUME NEW s \in Callers, ScanFails(s) PROVE WaitersHaveAScan'
  <2>1. \A t \in Callers \ {s} : scan'[t] = scan[t]
    BY <1>14 DEF ScanFails, Ended, TypeOK
  <2>2. ASSUME NEW d \in Callers, phase'[d] = "waiting"
        PROVE  on'[d] # NoScan /\ scan'[on'[d]].step # "idle"
    <3>1. d \notin Waiting(s) /\ phase[d] = "waiting" /\ on'[d] = on[d]
      BY <1>14, <2>2 DEF ScanFails
    <3>2. on[d] \in Callers \ {s} /\ scan[on[d]].step # "idle"
      BY <3>1 DEF Waiting, TypeOK, WaitersHaveAScan, Served
    <3> QED
      BY <2>1, <3>1, <3>2, ListAssumption
  <2> QED
    BY <2>2 DEF WaitersHaveAScan, Served
<1>15. CASE Expire
  BY <1>11, <1>15 DEF Expire, callVars
<1>16. ASSUME NEW i \in Born, FirstWrite(i) PROVE WaitersHaveAScan'
  BY <1>11, <1>16 DEF FirstWrite, callVars, listVars
<1>17. CASE UNCHANGED vars
  BY <1>11, <1>17 DEF vars, callVars, listVars
<1> QED
  BY <1>5, <1>6, <1>7, <1>8, <1>9, <1>10, <1>12, <1>13, <1>14, <1>15, <1>16, <1>17,
     Zenon DEF Next, ScanStep

\* No caller waits for a scan that is over: every scan that ends, fails or is
\* overtaken hands on the callers that share it (apps/daemon/src/read/
\* sessions.ts:91-120).
THEOREM NoWaiterIsLost == Spec => []WaitersHaveAScan
<1>1. Init => Joining /\ WaitersHaveAScan
  BY ListAssumption, ScanTypes DEF Init, Joining, Joins, WaitersHaveAScan, Served
<1> QED
  BY <1>1, TypeCorrect, JoiningInductive, ServedInductive, PTL DEF Spec

-----------------------------------------------------------------------------
(* Listed sessions are found.                                              *)

\* What Serve and Give hand out comes from the rows and the overlay.
LEMMA GiveFinds ==
  ASSUME TypeOK, Finding, NEW cs, NEW rows \in Rows, NEW others \in SUBSET Ids,
         Shown(rows) \cup others \subseteq known \cup gone, Give(cs, rows, others)
  PROVE  \A c \in Callers :
           Shown(answer'[c].rows) \cup answer'[c].transient \subseteq known \cup gone
BY DEF Give, Finding

LEMMA ServeFinds ==
  ASSUME TypeOK, Finding, NEW cs, NEW s \in Callers, NEW g \in Nat, NEW scans \in Scans,
         NEW rows, rows \in {cache, NoRows}, Serve(cs, s, g, rows, scans),
         \A t \in Callers : scans[t].step = "listed" => scans[t] = scan[t]
  PROVE  /\ \A c \in Callers :
              Shown(answer'[c].rows) \cup answer'[c].transient \subseteq known \cup gone
         /\ \A t \in Callers : scan'[t].step = "listed" => scan'[t] = scan[t]
<1>1. CASE rows # NoRows /\ Give(cs, rows, extra) /\ scan' = scans
  <2>1. rows \in Rows /\ extra \in SUBSET Ids /\ Shown(rows) \cup extra \subseteq known \cup gone
    BY <1>1 DEF TypeOK, Finding
  <2> QED
    BY <1>1, <2>1, GiveFinds
<1>2. CASE Wait(cs, promise) /\ scan' = scans
  BY <1>2 DEF Wait, Finding
<1>3. CASE Wait(cs, s) /\ scan' = [scans EXCEPT ![s] = NewScan(g)]
  <2>1. scan'[s].step = "opening" /\ \A t \in Callers \ {s} : scan'[t] = scans[t]
    BY <1>3 DEF NewScan, Scans
  <2> QED
    BY <1>3, <2>1 DEF Wait, Finding
<1> QED
  BY <1>1, <1>2, <1>3 DEF Serve

\* Finding outlives a step that finds no less.
LEMMA FindsMore ==
  ASSUME TypeOK, Finding, known \cup gone \subseteq known' \cup gone',
         extra' \subseteq known' \cup gone',
         cache' # NoRows => Shown(cache') \subseteq known \cup gone,
         \A t \in Callers : scan'[t].step = "listed" =>
           scan'[t].todo = {} /\ Shown(scan'[t].seen) \subseteq known' \cup gone',
         \A c \in Callers :
           Shown(answer'[c].rows) \cup answer'[c].transient \subseteq known \cup gone
  PROVE  Finding'
BY DEF Finding, Shown

LEMMA FindingInductive ==
  ASSUME TypeOK, Finding, [Next]_vars
  PROVE  Finding'
<1>0. scan \in Scans /\ generation \in Nat /\ generation + 1 \in Nat /\ cache \in Rows \cup {NoRows}
  BY DEF TypeOK, Scans, Scan
<1>1. ASSUME NEW c \in Callers, NEW g \in Nat, NEW rows \in {cache, NoRows},
             Serve({c}, c, g, rows, scan), cache' \in {cache, NoRows},
             UNCHANGED <<extra, found, known, gone>>
      PROVE  Finding'
  <2>1. /\ \A d \in Callers :
             Shown(answer'[d].rows) \cup answer'[d].transient \subseteq known \cup gone
        /\ \A t \in Callers : scan'[t].step = "listed" => scan'[t] = scan[t]
    BY <1>0, <1>1, ServeFinds
  <2> QED
    BY <1>1, <2>1 DEF Finding, Shown
<1>2. ASSUME known \cup gone \subseteq known' \cup gone', extra' \subseteq known' \cup gone',
             cache' \in {cache, NoRows}, UNCHANGED <<scan, answer>>
      PROVE  Finding'
  BY <1>2 DEF Finding, Shown
<1>3. ASSUME NEW c \in Callers, NEW i \in Ids, RenameFile(c, i) PROVE Finding'
  BY <1>2, <1>3 DEF RenameFile, Settle, Finding
<1>4. ASSUME NEW c \in Callers, NEW i \in Ids, DeleteFile(c, i) PROVE Finding'
  BY <1>2, <1>4 DEF DeleteFile, Settle, Finding, fileVars, listVars
<1>5. ASSUME NEW c \in Callers, List(c) PROVE Finding'
  BY <1>0, <1>1, <1>5 DEF List, fileVars
<1>6. ASSUME NEW c \in Callers, ForceList(c) PROVE Finding'
  BY <1>0, <1>1, <1>6 DEF ForceList, fileVars
<1>7. ASSUME NEW c \in Callers, NEW i \in Ids, Rename(c, i) PROVE Finding'
  BY <1>0, <1>1, <1>3, <1>7 DEF Rename, fileVars
<1>8. ASSUME NEW c \in Callers, NEW i \in Ids, Delete(c, i) PROVE Finding'
  BY <1>0, <1>1, <1>4, <1>8 DEF Delete, fileVars
<1>9. ASSUME NEW c \in Callers, Resolved(c) PROVE Finding'
  <2>1. about[c] \in known => about[c] \in Ids
    BY DEF TypeOK
  <2>2. CASE Settle(c, "not found") /\ UNCHANGED <<fileVars, listVars, extra, found, known>>
    BY <1>2, <2>2 DEF Settle, Finding, fileVars, listVars
  <2> QED
    BY <1>3, <1>4, <1>9, <2>1, <2>2 DEF Resolved
<1>10. ASSUME NEW i \in Born, Start(i) PROVE Finding'
  BY <1>2, <1>10 DEF Start, Finding, callVars, listVars
<1>11. ASSUME NEW s \in Callers, OpenDir(s) PROVE Finding'
  <2>1. \A t \in Callers : scan'[t].step = "listed" => scan'[t] = scan[t]
    BY <1>0, <1>11 DEF OpenDir, Scans, Scan
  <2> QED
    BY <1>11, <2>1, FindsMore DEF OpenDir, Finding, fileVars, callVars
<1>12. ASSUME NEW s \in Callers, NEW i \in Ids, ReadFile(s, i) PROVE Finding'
  <2>1. \A t \in Callers : scan'[t].step = "listed" => scan'[t] = scan[t]
    BY <1>0, <1>12 DEF ReadFile, Scans, Scan
  <2> QED
    BY <1>12, <2>1, FindsMore DEF ReadFile, Finding, fileVars, callVars
<1>13. ASSUME NEW s \in Callers, ScanListed(s) PROVE Finding'
  <2>1. /\ \A t \in Callers : t # s => scan'[t] = scan[t]
        /\ scan'[s].todo = {} /\ scan'[s].seen = scan[s].seen
    BY <1>0, <1>13 DEF ScanListed, Scans, Scan
  <2>2. known' = known \cup Shown(scan[s].seen)
        /\ UNCHANGED <<gone, cache, extra, answer>>
    BY <1>13 DEF ScanListed, fileVars, callVars
  <2> QED
    BY <2>1, <2>2 DEF Finding, Shown
<1>14. ASSUME NEW s \in Callers, ScanEnd(s) PROVE Finding'
  <2>0. /\ scan[s].step = "listed" /\ UNCHANGED <<known, gone>>
        /\ Ended(s) \in Scans /\ Ended(s)[s].step = "idle"
        /\ \A t \in Callers \ {s} : Ended(s)[t] = scan[t]
    BY <1>14, ScanTypes DEF ScanEnd, fileVars, Ended, TypeOK
  <2>1. CASE scan[s].gen = generation
    <3>1. /\ cache' = scan[s].seen /\ extra' \subseteq extra /\ scan' = Ended(s)
          /\ Give(Waiting(s), scan[s].seen, {})
      BY <1>14, <2>1 DEF ScanEnd
    <3>2. /\ Shown(scan[s].seen) \cup {} \subseteq known \cup gone
          /\ scan[s].seen \in Rows /\ {} \in SUBSET Ids
      BY <1>0, <2>0 DEF Finding, Scans, Scan
    <3>3. \A c \in Callers :
             Shown(answer'[c].rows) \cup answer'[c].transient \subseteq known \cup gone
      BY <3>1, <3>2, GiveFinds
    <3> QED
      BY <2>0, <3>1, <3>2, <3>3, FindsMore DEF Finding
  <2>2. CASE scan[s].gen # generation
    <3>1. Serve(Waiting(s), s, generation, cache, Ended(s)) /\ UNCHANGED <<cache, extra>>
      BY <1>14, <2>2 DEF ScanEnd
    <3>2. \A t \in Callers : Ended(s)[t].step = "listed" => Ended(s)[t] = scan[t]
      BY <2>0
    <3>3. /\ \A c \in Callers :
               Shown(answer'[c].rows) \cup answer'[c].transient \subseteq known \cup gone
          /\ \A t \in Callers : scan'[t].step = "listed" => scan'[t] = scan[t]
      BY <1>0, <2>0, <3>1, <3>2, ServeFinds
    <3> QED
      BY <2>0, <3>1, <3>3, FindsMore DEF Finding
  <2> QED
    BY <2>1, <2>2
<1>15. ASSUME NEW s \in Callers, ScanFails(s) PROVE Finding'
  <2>1. \A t \in Callers : scan'[t].step = "listed" => scan'[t] = scan[t]
    BY <1>0, <1>15, ScanTypes DEF ScanFails, Ended, TypeOK
  <2> QED
    BY <1>15, <2>1, FindsMore DEF ScanFails, Finding, fileVars
<1>16. ASSUME NEW i \in Born, FirstWrite(i) PROVE Finding'
  BY <1>2, <1>16 DEF FirstWrite, Finding, callVars, listVars
<1>17. CASE Expire
  BY <1>2, <1>17 DEF Expire, Finding, fileVars, callVars
<1>18. CASE UNCHANGED vars
  BY <1>2, <1>18 DEF vars, Finding, fileVars, callVars, listVars
<1> QED
  BY <1>5, <1>6, <1>7, <1>8, <1>9, <1>10, <1>11, <1>12, <1>13, <1>14, <1>15, <1>16, <1>17,
     <1>18, Zenon DEF Next, ScanStep

\* A session some list has shown is found by its id until it is deleted.
THEOREM ListedFound == Spec => []ListedIsFound
<1>1. Init => Finding
  BY ScanTypes DEF Init, Finding, Shown, NoFiles
<1>2. Finding => ListedIsFound
  BY DEF Finding, ListedIsFound
<1> QED
  BY <1>1, <1>2, TypeCorrect, FindingInductive, PTL DEF Spec

-----------------------------------------------------------------------------
(* Lists are fresh.                                                        *)

\* What a scan that counts after a step was before it.
Continues(t) ==
  \/ scan'[t] = NewScan(generation')
  \/ t \in Current /\ scan'[t] = scan[t]
  \/ /\ t \in Current /\ scan[t].step = "opening" /\ scan'[t].step = "reading"
     /\ scan'[t].todo = Shown(disk) /\ scan'[t].seen = scan[t].seen
  \/ /\ t \in Current /\ scan[t].step = "reading" /\ scan'[t].step \in {"reading", "listed"}
     /\ \A i \in Ids :
          \/ (i \in scan'[t].todo <=> i \in scan[t].todo) /\ scan'[t].seen[i] = scan[t].seen[i]
          \/ /\ i \in scan[t].todo /\ i \notin scan'[t].todo
             /\ scan'[t].seen[i] = disk[i]

\* Steps that the freshness of lists survives.
Advances ==
  /\ gone \subseteq gone'
  /\ \A i \in gone' : disk'[i] = 0
  /\ \A i \in Ids \ gone' : disk'[i] >= disk[i]
  /\ cache' # NoRows =>
       \/ cache' = cache
       \/ \E s \in Current : scan[s].step = "listed" /\ scan[s].todo = {} /\ cache' = scan[s].seen
  /\ \A t \in Current' : Continues(t)
  /\ gone' = gone \/ (cache' = NoRows /\ Current' = {})

LEMMA ReachKept ==
  ASSUME TypeOK, TypeOK', Advances, NEW f \in Rows, Reaches(f)
  PROVE  Reaches(f)'
<1>0. /\ \A i \in Ids : f[i] \in Nat /\ disk[i] \in Nat /\ disk'[i] \in Nat
      /\ \A s \in Callers, i \in Ids : scan[s].seen[i] \in Nat /\ scan'[s].seen[i] \in Nat
      /\ Current \subseteq Callers /\ Current' \subseteq Callers
      /\ cache # NoRows => \A i \in Ids : cache[i] \in Nat
  BY DEF TypeOK, Rows, Current, Active
<1> SUFFICES ASSUME NEW i \in Ids \ gone'
             PROVE  /\ disk'[i] >= f[i]
                    /\ cache' # NoRows => cache'[i] >= f[i]
                    /\ \A t \in Current' : scan'[t].step = "opening" \/ i \in scan'[t].todo
                                           \/ scan'[t].seen[i] >= f[i]
  BY DEF Reaches
<1>1. /\ i \in Ids \ gone /\ disk[i] >= f[i] /\ disk'[i] >= disk[i]
      /\ cache # NoRows => cache[i] >= f[i]
      /\ \A s \in Current : scan[s].step = "opening" \/ i \in scan[s].todo \/ scan[s].seen[i] >= f[i]
  BY DEF Reaches, Advances
<1>2. disk'[i] >= f[i]
  BY <1>0, <1>1
<1>3. cache' # NoRows => cache'[i] >= f[i]
  BY <1>1 DEF Advances
<1>4. ASSUME NEW t \in Current'
      PROVE  scan'[t].step = "opening" \/ i \in scan'[t].todo \/ scan'[t].seen[i] >= f[i]
  <2>1. Continues(t)
    BY <1>4 DEF Advances
  <2>2. CASE scan'[t] = NewScan(generation')
    BY <2>2 DEF NewScan
  <2>3. CASE t \in Current /\ scan'[t] = scan[t]
    BY <1>1, <2>3
  <2>4. CASE /\ t \in Current /\ scan'[t].todo = Shown(disk)
    <3>1. i \notin Shown(disk) => disk[i] = 0
      BY <1>0 DEF Shown
    <3> QED
      BY <1>0, <1>1, <1>4, <2>4, <3>1
  <2>5. CASE /\ t \in Current /\ scan[t].step = "reading"
             /\ \/ (i \in scan'[t].todo <=> i \in scan[t].todo) /\ scan'[t].seen[i] = scan[t].seen[i]
                \/ scan'[t].seen[i] = disk[i]
    BY <1>1, <2>5
  <2> QED
    BY <2>1, <2>2, <2>3, <2>4, <2>5 DEF Continues
<1> QED
  BY <1>2, <1>3, <1>4

LEMMA ForgetKept ==
  ASSUME TypeOK, TypeOK', Advances, Forgets
  PROVE  Forgets'
<1> SUFFICES ASSUME NEW i \in gone'
             PROVE  /\ disk'[i] = 0
                    /\ cache' # NoRows => cache'[i] = 0
                    /\ \A t \in Current' : i \notin scan'[t].todo /\ scan'[t].seen[i] = 0
  BY DEF Forgets
<1>1. disk'[i] = 0 /\ i \in Ids
  BY DEF Advances, TypeOK
<1>2. CASE cache' = NoRows /\ Current' = {}
  BY <1>1, <1>2
<1>3. CASE gone' = gone
  <2>1. /\ i \in gone /\ disk[i] = 0
        /\ cache # NoRows => cache[i] = 0
        /\ \A s \in Current : i \notin scan[s].todo /\ scan[s].seen[i] = 0
    BY <1>3 DEF Forgets
  <2>2. cache' # NoRows => cache'[i] = 0
    BY <2>1 DEF Advances
  <2>3. ASSUME NEW t \in Current' PROVE i \notin scan'[t].todo /\ scan'[t].seen[i] = 0
    <3>1. Continues(t)
      BY <2>3 DEF Advances
    <3>2. i \notin Shown(disk)
      BY <2>1 DEF Shown
    <3>3. NewScan(generation').todo = {} /\ NewScan(generation').seen[i] = 0
      BY <1>1 DEF NewScan, NoFiles
    <3> QED
      BY <1>1, <2>1, <3>1, <3>2, <3>3 DEF Continues
  <2> QED
    BY <1>1, <2>2, <2>3
<1> QED
  BY <1>2, <1>3 DEF Advances

\* After a step that begins a new generation there is nothing but the files.
LEMMA RaisedReach ==
  ASSUME NEW f \in Rows, cache' = NoRows, \A t \in Current' : scan'[t].step = "opening",
         \A i \in Ids \ gone' : disk'[i] >= f[i]
  PROVE  Reaches(f)'
BY DEF Reaches

LEMMA RaisedNone ==
  ASSUME TypeOK, Joining, UNCHANGED scan, generation' = generation + 1
  PROVE  Current' = {}
BY DEF Joining, Joins, TypeOK, Current, Active

\* Rows a list is answered from.
LEMMA GoodRows ==
  ASSUME TypeOK, Freshness, NEW rows,
         \/ rows = cache /\ cache # NoRows
         \/ \E s \in Current : scan[s].step = "listed" /\ scan[s].todo = {} /\ rows = scan[s].seen
  PROVE  /\ Shown(rows) \cap gone = {}
         /\ \A f \in Rows : Reaches(f) => \A i \in Ids \ gone : rows[i] >= f[i]
<1>1. \A i \in gone : rows[i] = 0
  BY DEF Freshness, Forgets
<1>2. Shown(rows) \cap gone = {}
  BY <1>1 DEF Shown
<1>3. \A f \in Rows : Reaches(f) => \A i \in Ids \ gone : rows[i] >= f[i]
  BY DEF Reaches
<1> QED
  BY <1>2, <1>3

\* A call that a step leaves alone, or ends otherwise than with a list.
LEMMA OldCall ==
  ASSUME TypeOK, TypeOK', Advances, NEW c \in Callers, Fresh(c),
         op'[c] = op[c], floor'[c] = floor[c], dead'[c] = dead[c], answer'[c] = answer[c],
         phase'[c] \in {phase[c], "failed", "not found"} \/ ~Lister(c)
  PROVE  Fresh(c)'
<1> SUFFICES ASSUME Lister(c)' PROVE Fresh(c)'
  BY DEF Fresh
<1>1. Lister(c) /\ floor[c] \in Rows /\ gone \subseteq gone'
  BY DEF Lister, TypeOK, Advances
<1>2. Reaches(floor[c]) => Reaches(floor[c])'
  <2>1. PICK f \in Rows : f = floor[c]
    BY <1>1
  <2>2. Reaches(f) => Reaches(f)'
    BY <2>1, ReachKept
  <2> QED
    BY <2>1, <2>2 DEF Reaches
<1> QED
  BY <1>1, <1>2 DEF Fresh

\* A call that has the list, or goes on to wait for it.
LEMMA ServedCall ==
  ASSUME TypeOK, TypeOK', Freshness, Advances, NEW c \in Callers, NEW rows, NEW f \in Rows,
         floor'[c] = f, dead'[c] \subseteq gone, Reaches(f)',
         \/ phase'[c] \in {"waiting", "ready"}
         \/ /\ answer'[c].rows = rows /\ Reaches(f)
            /\ \/ rows = cache /\ cache # NoRows
               \/ \E s \in Current : /\ scan[s].step = "listed" /\ scan[s].todo = {}
                                     /\ rows = scan[s].seen
  PROVE  Fresh(c)'
<1>0. Reaches(floor[c])'
  BY DEF Reaches
<1>1. dead'[c] \subseteq gone' /\ gone \subseteq gone'
  BY DEF Advances
<1>2. CASE phase'[c] \in {"waiting", "ready"}
  BY <1>0, <1>1, <1>2 DEF Fresh
<1>3. CASE /\ answer'[c].rows = rows /\ Reaches(f)
           /\ \/ rows = cache /\ cache # NoRows
              \/ \E s \in Current : /\ scan[s].step = "listed" /\ scan[s].todo = {}
                                    /\ rows = scan[s].seen
  <2>1. /\ Shown(rows) \cap gone = {}
        /\ \A i \in Ids \ gone : rows[i] >= f[i]
    BY <1>3, GoodRows
  <2>2. Shown(answer[c].rows)' \cap dead'[c] = {}
    BY <1>3, <2>1 DEF Shown
  <2>3. \A i \in Ids \ gone' : answer'[c].rows[i] >= floor'[c][i]
    BY <1>1, <1>3, <2>1
  <2> QED
    BY <1>0, <1>1, <2>2, <2>3 DEF Fresh
<1> QED
  BY <1>2, <1>3

LEMMA ServeScans ==
  ASSUME TypeOK, NEW cs, NEW s \in Callers, NEW g \in Nat, NEW rows, NEW scans \in Scans,
         Serve(cs, s, g, rows, scans),
         \A t \in Callers : scans[t] = scan[t] \/ scans[t].step = "idle"
  PROVE  \A t \in Callers :
           scan'[t] = NewScan(g) \/ scan'[t] = scan[t] \/ scan'[t].step = "idle"
BY DEF Serve, Scans

LEMMA ServeCalls ==
  ASSUME TypeOK, NEW cs, NEW s \in Callers, NEW g \in Nat, NEW rows, NEW scans \in Scans,
         Serve(cs, s, g, rows, scans)
  PROVE  \A c \in Callers :
           /\ c \notin cs => phase'[c] = phase[c] /\ answer'[c] = answer[c]
           /\ c \in cs => \/ phase'[c] \in {"waiting", "ready"}
                          \/ rows # NoRows /\ answer'[c].rows = rows
BY DEF Serve, Give, Wait, TypeOK

LEMMA ServeCall ==
  ASSUME TypeOK, NEW c \in Callers, Serve({c}, c, generation, cache, scan)
  PROVE  /\ \A d \in Callers \ {c} : phase'[d] = phase[d] /\ answer'[d] = answer[d]
         /\ phase'[c] \in {"waiting", "ready"} \/ (cache # NoRows /\ answer'[c].rows = cache)
BY DEF Serve, Give, Wait, TypeOK

\* A step that all calls survive as they are, but c, keeps lists fresh.
LEMMA FreshKept ==
  ASSUME TypeOK, TypeOK', Freshness, Advances, Reaches(named)', \A c \in Callers : Fresh(c)'
  PROVE  Freshness'
BY ForgetKept DEF Freshness

LEMMA FreshnessInductive ==
  ASSUME TypeOK, TypeOK', Joining, Finding, Freshness, [Next]_vars
  PROVE  Freshness'
<1>0. /\ scan \in Scans /\ generation \in Nat /\ generation + 1 \in Nat
      /\ named \in Rows /\ disk \in Rows /\ disk' \in Rows
      /\ \A i \in gone : disk[i] = 0
      /\ Reaches(named) /\ \A c \in Callers : Fresh(c)
  BY DEF TypeOK, Scans, Scan, Freshness, Forgets
<1>1. ASSUME Advances, UNCHANGED named,
             \A c \in Callers :
               /\ op'[c] = op[c] /\ floor'[c] = floor[c] /\ dead'[c] = dead[c]
               /\ answer'[c] = answer[c]
               /\ phase'[c] \in {phase[c], "failed", "not found"} \/ ~Lister(c)
      PROVE  Freshness'
  <2>1. \A c \in Callers : Fresh(c)'
    BY <1>0, <1>1, OldCall
  <2>2. Reaches(named)'
    <3>1. PICK f \in Rows : f = named
      BY <1>0
    <3>2. Reaches(f)'
      BY <1>0, <1>1, <3>1, ReachKept
    <3> QED
      BY <1>1, <3>1, <3>2 DEF Reaches
  <2> QED
    BY <1>1, <2>1, <2>2, FreshKept
<1>2. ASSUME NEW c \in Callers, NEW i \in Ids, RenameFile(c, i), ~Lister(c)',
             \A d \in Callers \ {c} : op'[d] = op[d]
      PROVE  Freshness'
  <2>1. /\ UNCHANGED <<gone, scan, answer, floor, dead>>
        /\ generation' = generation + 1 /\ cache' = NoRows
        /\ phase' = [phase EXCEPT ![c] = "returned"]
    BY <1>2 DEF RenameFile, Settle
  <2>2. Current' = {}
    BY <2>1, RaisedNone
  <2>3. /\ \A k \in gone' : disk'[k] = 0
        /\ \A k \in Ids \ gone' : disk'[k] >= disk[k] /\ disk'[k] >= named'[k]
    <3>1. \A k \in Ids \ gone : disk[k] >= named[k]
      BY <1>0 DEF Reaches
    <3>2. \A k \in Ids : disk[k] \in Nat
      BY <1>0 DEF Rows
    <3> QED
      BY <1>0, <1>2, <2>1, <3>1, <3>2 DEF RenameFile, TypeOK, Rows
  <2>4. Advances
    BY <2>1, <2>2, <2>3 DEF Advances
  <2>5. Reaches(named)'
    BY <2>1, <2>2, <2>3 DEF Reaches
  <2>6. \A d \in Callers \ {c} : Fresh(d)'
    <3>1. \A d \in Callers \ {c} : phase'[d] = phase[d]
      BY <2>1 DEF TypeOK
    <3> QED
      BY <1>0, <1>2, <2>1, <2>4, <3>1, OldCall
  <2>7. Fresh(c)'
    BY <1>2 DEF Fresh
  <2> QED
    BY <2>4, <2>5, <2>6, <2>7, FreshKept
<1>3. ASSUME NEW c \in Callers, NEW i \in Ids, DeleteFile(c, i), ~Lister(c)',
             \A d \in Callers \ {c} : op'[d] = op[d]
      PROVE  Freshness'
  <2>1. /\ UNCHANGED <<named, scan, answer, floor, dead>>
        /\ \A d \in Callers \ {c} : phase'[d] = phase[d]
    BY <1>3 DEF DeleteFile, Settle, fileVars, listVars, TypeOK
  <2>2. Advances
    <3>1. CASE UNCHANGED <<fileVars, listVars>>
      BY <1>0, <3>1 DEF Advances, Continues, Current, Active, fileVars, listVars, Rows
    <3>2. CASE /\ disk' = [disk EXCEPT ![i] = 0] /\ gone' = gone \cup {i}
               /\ generation' = generation + 1 /\ cache' = NoRows
      <4>1. Current' = {}
        BY <2>1, <3>2, RaisedNone
      <4>2. \A k \in gone' : disk'[k] = 0
        BY <1>0, <3>2 DEF Rows
      <4>3. \A k \in Ids \ gone' : disk'[k] >= disk[k]
        BY <1>0, <3>2 DEF Rows
      <4> QED
        BY <3>2, <4>1, <4>2, <4>3 DEF Advances
    <3> QED
      BY <1>3, <3>1, <3>2 DEF DeleteFile
  <2>3. Reaches(named)'
    <3>1. PICK f \in Rows : f = named
      BY <1>0
    <3>2. Reaches(f)'
      BY <1>0, <2>2, <3>1, ReachKept
    <3> QED
      BY <2>1, <3>1, <3>2 DEF Reaches
  <2>4. \A d \in Callers \ {c} : Fresh(d)'
    BY <1>0, <1>3, <2>1, <2>2, OldCall
  <2>5. Fresh(c)'
    BY <1>3 DEF Fresh
  <2> QED
    BY <2>2, <2>3, <2>4, <2>5, FreshKept
\* A call in the current generation, which nothing else changes.
<1>4. ASSUME NEW c \in Callers, Serve({c}, c, generation, cache, scan),
             UNCHANGED <<fileVars, generation, cache>>,
             \A d \in Callers \ {c} : op'[d] = op[d] /\ floor'[d] = floor[d] /\ dead'[d] = dead[d],
             ~Lister(c)' \/ (floor'[c] = named /\ dead'[c] = gone)
      PROVE  Freshness'
  <2>1. \A t \in Callers : scan'[t] = NewScan(generation) \/ scan'[t] = scan[t]
                           \/ scan'[t].step = "idle"
    BY <1>0, <1>4, ServeScans
  <2>2. Advances
    BY <1>0, <1>4, <2>1 DEF Advances, Continues, Current, Active, fileVars, Rows
  <2>3. PICK f \in Rows : f = named /\ f = named'
    BY <1>0, <1>4 DEF fileVars
  <2>4. Reaches(f)'
    BY <1>0, <2>2, <2>3, ReachKept
  <2>5. /\ \A d \in Callers \ {c} : phase'[d] = phase[d] /\ answer'[d] = answer[d]
        /\ phase'[c] \in {"waiting", "ready"} \/ (cache # NoRows /\ answer'[c].rows = cache)
    BY <1>4, ServeCall
  <2>6. \A d \in Callers \ {c} : Fresh(d)'
    BY <1>0, <1>4, <2>2, <2>5, OldCall
  <2>7. Fresh(c)'
    <3>1. CASE ~Lister(c)'
      BY <3>1 DEF Fresh
    <3>2. CASE floor'[c] = named /\ dead'[c] = gone
      BY <1>0, <2>2, <2>3, <2>4, <2>5, <3>2, ServedCall
    <3> QED
      BY <1>4, <3>1, <3>2
  <2>8. Reaches(named)'
    BY <2>3, <2>4 DEF Reaches
  <2> QED
    BY <2>2, <2>6, <2>7, <2>8, FreshKept
<1>5. ASSUME NEW c \in Callers, List(c) PROVE Freshness'
  <2>1. /\ \A d \in Callers \ {c} : op'[d] = op[d] /\ floor'[d] = floor[d] /\ dead'[d] = dead[d]
        /\ floor'[c] = named /\ dead'[c] = gone
    BY <1>5 DEF List, Call, TypeOK
  <2> QED
    BY <1>4, <1>5, <2>1 DEF List
<1>6. ASSUME NEW c \in Callers, ForceList(c) PROVE Freshness'
  <2>1. /\ \A d \in Callers \ {c} : op'[d] = op[d] /\ floor'[d] = floor[d] /\ dead'[d] = dead[d]
        /\ floor'[c] = disk /\ dead'[c] = gone
        /\ UNCHANGED <<disk, named, gone>> /\ generation' = generation + 1 /\ cache' = NoRows
        /\ Serve({c}, c, generation + 1, NoRows, scan)
    BY <1>6 DEF ForceList, Call, TypeOK, fileVars
  <2>2. /\ \A t \in Callers : scan'[t] = NewScan(generation + 1) \/ scan'[t] = scan[t]
                              \/ scan'[t].step = "idle"
        /\ \A d \in Callers \ {c} : phase'[d] = phase[d] /\ answer'[d] = answer[d]
        /\ phase'[c] \in {"waiting", "ready"}
    <3>1. \A t \in Callers : scan'[t] = NewScan(generation + 1) \/ scan'[t] = scan[t]
                              \/ scan'[t].step = "idle"
      BY <1>0, <2>1, ServeScans
    <3>2. \A d \in Callers :
            /\ d \notin {c} => phase'[d] = phase[d] /\ answer'[d] = answer[d]
            /\ d \in {c} => \/ phase'[d] \in {"waiting", "ready"}
                            \/ NoRows # NoRows /\ answer'[d].rows = NoRows
      BY <1>0, <2>1, ServeCalls
    <3> QED
      BY <3>1, <3>2
  <2>3. ASSUME NEW t \in Current' PROVE scan'[t] = NewScan(generation')
    <3>1. t \in Callers /\ scan'[t].step # "idle" /\ scan'[t].gen = generation + 1
      BY <2>1 DEF Current, Active
    <3>2. scan[t].step # "idle" => scan[t].gen <= generation
      BY <3>1 DEF Joining, Joins
    <3>3. scan'[t] # scan[t]
      BY <1>0, <3>1, <3>2
    <3> QED
      BY <2>1, <2>2, <3>1, <3>3
  <2>4. Advances
    BY <1>0, <2>1, <2>3 DEF Advances, Continues, Rows
  <2>5. \A f \in Rows : (\A i \in Ids \ gone' : disk'[i] >= f[i]) => Reaches(f)'
    BY <2>1, <2>3, RaisedReach DEF NewScan
  <2>6. PICK f \in Rows, h \in Rows : f = named' /\ h = disk
    BY <1>0, <2>1
  <2>7. Reaches(f)' /\ Reaches(h)'
    BY <1>0, <2>1, <2>5, <2>6 DEF Reaches, Rows
  <2>8. Reaches(named)'
    BY <2>6, <2>7 DEF Reaches
  <2>9. \A d \in Callers \ {c} : Fresh(d)'
    BY <1>0, <2>1, <2>2, <2>4, OldCall
  <2>10. Fresh(c)'
    BY <1>0, <2>1, <2>2, <2>4, <2>6, <2>7, ServedCall
  <2> QED
    BY <2>4, <2>8, <2>9, <2>10, FreshKept
<1>7. ASSUME NEW c \in Callers, NEW i \in Ids, Rename(c, i) PROVE Freshness'
  <2>1. ~Lister(c)' /\ \A d \in Callers \ {c} : op'[d] = op[d]
    BY <1>7 DEF Rename, Call, TypeOK, Lister
  <2> QED
    BY <1>2, <1>4, <1>7, <2>1 DEF Rename
<1>8. ASSUME NEW c \in Callers, NEW i \in Ids, Delete(c, i) PROVE Freshness'
  <2>1. ~Lister(c)' /\ \A d \in Callers \ {c} : op'[d] = op[d]
    BY <1>8 DEF Delete, Call, TypeOK, Lister
  <2> QED
    BY <1>3, <1>4, <1>8, <2>1 DEF Delete
<1>9. ASSUME NEW c \in Callers, Resolved(c) PROVE Freshness'
  <2>1. (about[c] \in known => about[c] \in Ids) /\ UNCHANGED op
    BY <1>9 DEF TypeOK, Resolved
  <2>2. CASE about[c] \in known /\ op[c] = "rename" /\ RenameFile(c, about[c])
    BY <1>2, <2>1, <2>2 DEF Lister
  <2>3. CASE about[c] \in known /\ op[c] = "delete" /\ DeleteFile(c, about[c])
    BY <1>3, <2>1, <2>3 DEF Lister
  <2>4. CASE Settle(c, "not found") /\ UNCHANGED <<fileVars, listVars, extra, found, known>>
    <3>0. UNCHANGED <<fileVars, listVars>>
      BY <2>4
    <3>1. Advances
      BY <1>0, <3>0 DEF Advances, Continues, Current, Active, fileVars, listVars, Rows
    <3> QED
      BY <1>1, <2>1, <2>4, <3>1 DEF Settle, TypeOK, fileVars
  <2> QED
    BY <1>9, <2>2, <2>3, <2>4 DEF Resolved
<1>10. ASSUME NEW i \in Born, Start(i) PROVE Freshness'
  <2>1. UNCHANGED <<disk, named, gone, callVars, listVars>>
    BY <1>10 DEF Start
  <2>2. Advances
    BY <1>0, <2>1 DEF Advances, Continues, Current, Active, listVars, Rows
  <2> QED
    BY <1>1, <2>1, <2>2 DEF callVars
<1>11. ASSUME NEW s \in Callers, OpenDir(s) PROVE Freshness'
  <2>1. /\ \A t \in Callers \ {s} : scan'[t] = scan[t]
        /\ scan[s].step = "opening" /\ scan'[s].step = "reading" /\ scan'[s].gen = scan[s].gen
        /\ scan'[s].todo = Shown(disk) /\ scan'[s].seen = scan[s].seen
        /\ UNCHANGED <<fileVars, callVars, generation, cache>>
    BY <1>0, <1>11 DEF OpenDir, Scans, Scan
  <2>2. Advances
    BY <1>0, <2>1 DEF Advances, Continues, Current, Active, fileVars, Rows
  <2> QED
    BY <1>1, <2>1, <2>2 DEF callVars, fileVars
<1>12. ASSUME NEW s \in Callers, NEW i \in Ids, ReadFile(s, i) PROVE Freshness'
  <2>1. /\ \A t \in Callers \ {s} : scan'[t] = scan[t]
        /\ scan[s].step = "reading" /\ scan'[s].step = "reading" /\ scan'[s].gen = scan[s].gen
        /\ i \in scan[s].todo /\ scan'[s].todo = scan[s].todo \ {i}
        /\ scan'[s].seen = [scan[s].seen EXCEPT ![i] = disk[i]]
        /\ UNCHANGED <<fileVars, callVars, generation, cache>>
    BY <1>0, <1>12 DEF ReadFile, Scans, Scan
  <2>2. scan'[s].seen[i] = disk[i] /\ \A k \in Ids \ {i} : scan'[s].seen[k] = scan[s].seen[k]
    BY <1>0, <2>1 DEF Scans, Scan, Rows
  <2>3. \A t \in Current' : Continues(t)
    BY <2>1, <2>2 DEF Continues, Current, Active
  <2>4. Advances
    BY <1>0, <2>1, <2>3 DEF Advances, fileVars, Rows
  <2> QED
    BY <1>1, <2>1, <2>4 DEF callVars, fileVars
<1>13. ASSUME NEW s \in Callers, ScanListed(s) PROVE Freshness'
  <2>1. /\ \A t \in Callers \ {s} : scan'[t] = scan[t]
        /\ scan[s].step = "reading" /\ scan'[s].step = "listed" /\ scan'[s].gen = scan[s].gen
        /\ scan'[s].todo = scan[s].todo /\ scan'[s].seen = scan[s].seen
        /\ UNCHANGED <<fileVars, callVars, generation, cache>>
    BY <1>0, <1>13 DEF ScanListed, Scans, Scan
  <2>2. Advances
    BY <1>0, <2>1 DEF Advances, Continues, Current, Active, fileVars, Rows
  <2> QED
    BY <1>1, <2>1, <2>2 DEF callVars, fileVars
<1>14. ASSUME NEW s \in Callers, ScanEnd(s) PROVE Freshness'
  <2>1. /\ scan[s].step = "listed" /\ scan[s].todo = {} /\ s \in Active
        /\ UNCHANGED <<fileVars, generation, op, about, floor, dead>>
        /\ Ended(s) \in Scans /\ Ended(s)[s].step = "idle" /\ Waiting(s) \in SUBSET Callers
        /\ \A t \in Callers \ {s} : Ended(s)[t] = scan[t]
    BY <1>14, ScanTypes DEF ScanEnd, Active, Ended, Waiting, Finding, TypeOK
  <2>2. /\ Advances
        /\ \A c \in Callers \ Waiting(s) : phase'[c] = phase[c] /\ answer'[c] = answer[c]
        /\ \A c \in Waiting(s) :
             \/ phase'[c] \in {"waiting", "ready"}
             \/ cache # NoRows /\ answer'[c].rows = cache
             \/ s \in Current /\ answer'[c].rows = scan[s].seen
    <3>1. CASE scan[s].gen = generation
      <4>1. cache' = scan[s].seen /\ scan' = Ended(s) /\ Give(Waiting(s), scan[s].seen, {})
        BY <1>14, <3>1 DEF ScanEnd
      <4>2. s \in Current
        BY <2>1, <3>1 DEF Current
      <4>3. \A t \in Current' : t \in Current /\ scan'[t] = scan[t]
        BY <2>1, <4>1 DEF Current, Active
      <4>4. Advances
        BY <1>0, <2>1, <4>1, <4>2, <4>3 DEF Advances, Continues, fileVars, Rows
      <4> QED
        BY <2>1, <4>1, <4>2, <4>4 DEF Give, TypeOK
    <3>2. CASE scan[s].gen # generation
      <4>1. Serve(Waiting(s), s, generation, cache, Ended(s)) /\ UNCHANGED cache
        BY <1>14, <3>2 DEF ScanEnd
      <4>2. \A t \in Callers : scan'[t] = NewScan(generation) \/ scan'[t] = scan[t]
                               \/ scan'[t].step = "idle"
        BY <1>0, <2>1, <4>1, ServeScans
      <4>3. Advances
        BY <1>0, <2>1, <4>1, <4>2 DEF Advances, Continues, Current, Active, fileVars, Rows
      <4> QED
        BY <1>0, <2>1, <4>1, <4>3, ServeCalls
    <3> QED
      BY <3>1, <3>2
  <2>3. ASSUME NEW c \in Callers \ Waiting(s) PROVE Fresh(c)'
    BY <1>0, <2>1, <2>2, <2>3, OldCall
  <2>4. ASSUME NEW c \in Waiting(s) PROVE Fresh(c)'
    <3>1. CASE ~Lister(c)
      BY <2>1, <3>1 DEF Fresh, Lister
    <3>2. CASE Lister(c)
      <4>1. /\ c \in Callers /\ dead[c] \subseteq gone /\ Reaches(floor[c]) /\ floor[c] \in Rows
        BY <1>0, <2>4, <3>2 DEF Waiting, Fresh, TypeOK
      <4>2. PICK f \in Rows : f = floor[c]
        BY <4>1
      <4>3. Reaches(f) /\ Reaches(f)'
        BY <2>2, <4>1, <4>2, ReachKept
      <4> QED
        BY <2>1, <2>2, <2>4, <4>1, <4>2, <4>3, ServedCall
    <3> QED
      BY <3>1, <3>2
  <2>5. PICK f \in Rows : f = named /\ f = named'
    BY <1>0, <2>1 DEF fileVars
  <2>6. Reaches(f)'
    BY <1>0, <2>2, <2>5, ReachKept
  <2>7. Reaches(named)'
    BY <2>5, <2>6 DEF Reaches
  <2> QED
    BY <2>2, <2>3, <2>4, <2>7, FreshKept
<1>15. ASSUME NEW s \in Callers, ScanFails(s) PROVE Freshness'
  <2>1. /\ \A t \in Callers : scan'[t] = scan[t] \/ scan'[t].step = "idle"
        /\ UNCHANGED <<fileVars, generation, cache, op, answer, floor, dead>>
        /\ \A c \in Callers : phase'[c] \in {phase[c], "failed"}
    BY <1>15, ScanTypes DEF ScanFails, Ended, TypeOK
  <2>2. Advances
    BY <1>0, <2>1 DEF Advances, Continues, Current, Active, fileVars, Rows
  <2> QED
    BY <1>1, <2>1, <2>2 DEF fileVars
<1>16. ASSUME NEW i \in Born, FirstWrite(i) PROVE Freshness'
  <2>1. /\ i \notin gone /\ disk[i] = 0 /\ disk' = [disk EXCEPT ![i] = 1]
        /\ UNCHANGED <<named, gone, callVars, listVars>>
    BY <1>16 DEF FirstWrite
  <2>2. /\ \A k \in gone' : disk'[k] = 0
        /\ \A k \in Ids \ gone' : disk'[k] >= disk[k]
    BY <1>0, <2>1 DEF Rows, TypeOK
  <2>3. Advances
    BY <1>0, <2>1, <2>2 DEF Advances, Continues, Current, Active, listVars
  <2> QED
    BY <1>1, <2>1, <2>3 DEF callVars
<1>17. CASE Expire
  <2>1. Advances
    BY <1>0, <1>17 DEF Expire, Advances, Continues, Current, Active, fileVars, Rows
  <2> QED
    BY <1>1, <1>17, <2>1 DEF Expire, callVars, fileVars
<1>18. CASE UNCHANGED vars
  <2>1. Advances
    BY <1>0, <1>18 DEF vars, Advances, Continues, Current, Active, fileVars, listVars, Rows
  <2> QED
    BY <1>1, <1>18, <2>1 DEF vars, callVars, fileVars
<1> QED
  BY <1>5, <1>6, <1>7, <1>8, <1>9, <1>10, <1>11, <1>12, <1>13, <1>14, <1>15, <1>16, <1>17,
     <1>18, Zenon DEF Next, ScanStep

-----------------------------------------------------------------------------
(* The overlay shows no deleted session that a scan had found.             *)

\* Sessions that have, or had, a file.
Written == Shown(disk) \cup gone

\* A session has a file only after it was started, scans find only what has a
\* file, and what one that counted has found is neither in the overlay nor put
\* there again.
Overlay ==
  /\ \A i \in Born \cap Written : i \in started
  /\ found \subseteq Written
  /\ \A s \in Callers : scan[s].todo \cup Shown(scan[s].seen) \subseteq Written
  /\ extra \cap found = {}
  /\ \A c \in Callers : Listed(c) => answer[c].transient \cap dead[c] \cap found = {}

\* What a scan that counts finds is not deleted, so no list given before loses.
LEMMA OverlayKept ==
  ASSUME TypeOK, Freshness, Overlay,
         Written \subseteq Written', \A i \in Born \cap Written' : i \in started',
         found \subseteq found', found' \subseteq Written, found' \cap gone \subseteq found,
         \A s \in Callers : scan'[s].todo \cup Shown(scan'[s].seen) \subseteq Written',
         extra' \cap found' = {},
         \A c \in Callers : Listed(c)' =>
           \/ Listed(c) /\ answer'[c] = answer[c] /\ dead'[c] = dead[c]
           \/ answer'[c].transient \cap found' = {}
  PROVE  Overlay'
<1>1. ASSUME NEW c \in Callers, Listed(c)'
      PROVE  answer'[c].transient \cap dead'[c] \cap found' = {}
  <2>1. CASE Listed(c) /\ answer'[c] = answer[c] /\ dead'[c] = dead[c]
    <3>1. dead[c] \subseteq gone
      BY <2>1 DEF Listed, Freshness, Fresh, Lister
    <3>2. answer[c].transient \cap dead[c] \cap found = {}
      BY <2>1 DEF Overlay
    <3> QED
      BY <2>1, <3>1, <3>2
  <2>2. CASE answer'[c].transient \cap found' = {}
    BY <2>2
  <2> QED
    BY <1>1, <2>1, <2>2
<1>2. found' \subseteq Written'
  OBVIOUS
<1>3. \A s \in Callers : (scan[s].todo \cup Shown(scan[s].seen) \subseteq Written)'
  BY DEF Shown
<1> QED
  BY <1>1, <1>2, <1>3 DEF Overlay

LEMMA ServeOverlay ==
  ASSUME TypeOK, Overlay, NEW cs, NEW s \in Callers, NEW g \in Nat, NEW rows,
         NEW scans \in Scans, Serve(cs, s, g, rows, scans), UNCHANGED found
  PROVE  \A c \in Callers :
           /\ c \notin cs => phase'[c] = phase[c] /\ answer'[c] = answer[c]
           /\ c \in cs => \/ phase'[c] \in {"waiting", "ready"}
                          \/ answer'[c].transient \cap found' = {}
BY DEF Serve, Give, Wait, TypeOK, Overlay

LEMMA OverlayInductive ==
  ASSUME TypeOK, TypeOK', Freshness, Overlay, [Next]_vars
  PROVE  Overlay'
<1>0. /\ scan \in Scans /\ generation \in Nat /\ generation + 1 \in Nat
      /\ disk \in Rows /\ gone \subseteq Ids /\ Written \subseteq Ids
      /\ \A g \in Nat : NewScan(g).todo = {} /\ Shown(NewScan(g).seen) = {}
      /\ IdleScan.todo = {} /\ Shown(IdleScan.seen) = {}
  BY DEF TypeOK, Scans, Scan, NewScan, IdleScan, NoFiles, Shown, Written
\* The files stay, and so does everything but the scans and the calls.
<1>1. ASSUME UNCHANGED <<disk, gone, extra, found>>,
             started \subseteq started',
             \A t \in Callers : scan'[t].todo \cup Shown(scan'[t].seen) \subseteq Written,
             \A d \in Callers : Listed(d)' =>
               \/ Listed(d) /\ answer'[d] = answer[d] /\ dead'[d] = dead[d]
               \/ answer'[d].transient \cap found' = {}
      PROVE  Overlay'
  <2>1. Written' = Written
    BY <1>1 DEF Written, Shown
  <2>2. Born \subseteq Ids
    BY ListAssumption
  <2> QED
    BY <1>1, <2>1, <2>2, OverlayKept DEF Overlay
\* Calls cs are served.
<1>2. ASSUME NEW cs \in SUBSET Callers, NEW s \in Callers, NEW g \in Nat, NEW rows,
             NEW scans \in Scans, Serve(cs, s, g, rows, scans),
             \A t \in Callers : scans[t] = scan[t] \/ scans[t] = IdleScan,
             UNCHANGED <<disk, gone, extra, found>>,
             started \subseteq started',
             \A d \in Callers \ cs : op'[d] = op[d] /\ dead'[d] = dead[d]
      PROVE  Overlay'
  <2>1. \A d \in Callers :
          /\ d \notin cs => phase'[d] = phase[d] /\ answer'[d] = answer[d]
          /\ d \in cs => \/ phase'[d] \in {"waiting", "ready"}
                         \/ answer'[d].transient \cap found' = {}
    BY <1>2, ServeOverlay
  <2>2. \A t \in Callers : scan'[t] \in {NewScan(g), scan[t], IdleScan}
    BY <1>2 DEF Serve, Scans
  <2>3. \A t \in Callers : scan'[t].todo \cup Shown(scan'[t].seen) \subseteq Written
    BY <1>0, <2>2 DEF Overlay
  <2>4. \A d \in Callers : Listed(d)' =>
          \/ Listed(d) /\ answer'[d] = answer[d] /\ dead'[d] = dead[d]
          \/ answer'[d].transient \cap found' = {}
    BY <1>2, <2>1 DEF Listed
  <2> QED
    BY <1>1, <1>2, <2>3, <2>4
\* A call is made.
<1>3. ASSUME NEW c \in Callers, NEW kind, NEW k, Call(c, kind, k)
      PROVE  \A d \in Callers \ {c} : op'[d] = op[d]
  BY <1>3 DEF Call, TypeOK
<1>4. ASSUME NEW c \in Callers, NEW i \in Ids, RenameFile(c, i),
             ~Lister(c)', \A d \in Callers \ {c} : op'[d] = op[d]
      PROVE  Overlay'
  <2>1. Shown(disk') = Shown(disk)
    BY <1>0, <1>4 DEF RenameFile, Shown, Rows
  <2>2. Written' = Written
    BY <1>4, <2>1 DEF RenameFile, Written, Shown
  <2>3. \A d \in Callers : Listed(d)' => Listed(d) /\ answer'[d] = answer[d] /\ dead'[d] = dead[d]
    BY <1>4 DEF RenameFile, Settle, Listed, Lister, TypeOK
  <2>4. UNCHANGED <<found, extra, scan, started>> /\ Born \subseteq Ids
    BY <1>4, ListAssumption DEF RenameFile
  <2> QED
    BY <1>4, <2>2, <2>3, <2>4, OverlayKept DEF Overlay
<1>5. ASSUME NEW c \in Callers, NEW i \in Ids, DeleteFile(c, i),
             ~Lister(c)', \A d \in Callers \ {c} : op'[d] = op[d]
      PROVE  Overlay'
  <2>1. Written' = Written
    <3>1. CASE disk' = [disk EXCEPT ![i] = 0] /\ gone' = gone \cup {i} /\ disk[i] > 0
      BY <1>0, <3>1 DEF Written, Shown, Rows
    <3>2. CASE UNCHANGED fileVars
      BY <3>2 DEF Written, Shown, fileVars
    <3> QED
      BY <1>5, <3>1, <3>2 DEF DeleteFile
  <2>2. \A d \in Callers : Listed(d)' => Listed(d) /\ answer'[d] = answer[d] /\ dead'[d] = dead[d]
    BY <1>5 DEF DeleteFile, Settle, Listed, Lister, TypeOK
  <2>3. UNCHANGED <<found, extra, scan, started>> /\ Born \subseteq Ids
    BY <1>5, ListAssumption DEF DeleteFile, fileVars, listVars
  <2> QED
    BY <1>5, <2>1, <2>2, <2>3, OverlayKept DEF Overlay
<1>6. ASSUME NEW c \in Callers, List(c) PROVE Overlay'
  <2>1. \A d \in Callers \ {c} : dead'[d] = dead[d]
    BY <1>6 DEF List, TypeOK
  <2> QED
    BY <1>0, <1>2, <1>3, <1>6, <2>1 DEF List, fileVars
<1>7. ASSUME NEW c \in Callers, ForceList(c) PROVE Overlay'
  <2>1. \A d \in Callers \ {c} : dead'[d] = dead[d]
    BY <1>7 DEF ForceList, TypeOK
  <2> QED
    BY <1>0, <1>2, <1>3, <1>7, <2>1 DEF ForceList, fileVars
<1>8. ASSUME NEW c \in Callers, NEW i \in Ids, Rename(c, i) PROVE Overlay'
  <2>1. ~Lister(c)' /\ Call(c, "rename", i)
    BY <1>8 DEF Rename, Call, TypeOK, Lister
  <2>2. CASE Serve({c}, c, generation, cache, scan)
             /\ UNCHANGED <<fileVars, generation, cache, extra, found, known, floor, dead>>
    BY <1>0, <1>2, <1>3, <2>1, <2>2 DEF fileVars
  <2> QED
    BY <1>3, <1>4, <1>8, <2>1, <2>2 DEF Rename
<1>9. ASSUME NEW c \in Callers, NEW i \in Ids, Delete(c, i) PROVE Overlay'
  <2>1. ~Lister(c)' /\ Call(c, "delete", i)
    BY <1>9 DEF Delete, Call, TypeOK, Lister
  <2>2. CASE Serve({c}, c, generation, cache, scan)
             /\ UNCHANGED <<fileVars, generation, cache, extra, found, known, floor, dead>>
    BY <1>0, <1>2, <1>3, <2>1, <2>2 DEF fileVars
  <2> QED
    BY <1>3, <1>5, <1>9, <2>1, <2>2 DEF Delete
<1>10. ASSUME NEW c \in Callers, Resolved(c) PROVE Overlay'
  <2>1. /\ about[c] \in known => about[c] \in Ids
        /\ \A d \in Callers : op'[d] = op[d]
    BY <1>10 DEF TypeOK, Resolved
  <2>2. CASE about[c] \in known /\ op[c] = "rename" /\ RenameFile(c, about[c])
    BY <1>4, <2>1, <2>2 DEF Lister
  <2>3. CASE about[c] \in known /\ op[c] = "delete" /\ DeleteFile(c, about[c])
    BY <1>5, <2>1, <2>3 DEF Lister
  <2>4. CASE Settle(c, "not found") /\ UNCHANGED <<fileVars, listVars, extra, found, known>>
    <3>1. \A d \in Callers : Listed(d)' => Listed(d) /\ answer'[d] = answer[d] /\ dead'[d] = dead[d]
      BY <2>1, <2>4 DEF Settle, Listed, TypeOK
    <3> QED
      BY <1>1, <2>1, <2>4, <3>1 DEF fileVars, listVars, Overlay
  <2> QED
    BY <1>10, <2>2, <2>3, <2>4 DEF Resolved
\* A session is started before it has a file, so no scan has found it yet.
<1>11. ASSUME NEW i \in Born, Start(i) PROVE Overlay'
  <2>1. /\ extra' = extra \cup {i} /\ started' = started \cup {i} /\ i \notin started
        /\ UNCHANGED <<disk, gone, callVars, listVars, found>> /\ Born \subseteq Ids
    BY <1>11, ListAssumption DEF Start
  <2>2. Written' = Written
    BY <2>1 DEF Written, Shown
  <2>3. i \notin found
    BY <2>1 DEF Overlay
  <2>4. \A d \in Callers : Listed(d)' => Listed(d) /\ answer'[d] = answer[d] /\ dead'[d] = dead[d]
    BY <2>1 DEF callVars, Listed
  <2>5. extra' \cap found' = {}
    BY <2>1, <2>3 DEF Overlay
  <2>6. scan' = scan /\ found' = found
    BY <2>1 DEF listVars
  <2>7. \A j \in Born \cap Written' : j \in started'
    BY <2>1, <2>2 DEF Overlay
  <2> QED
    BY <2>2, <2>4, <2>5, <2>6, <2>7, OverlayKept DEF Overlay
\* A scan goes on, and finds files that are there.
<1>12. ASSUME NEW s \in Callers, UNCHANGED <<disk, gone, started, callVars, extra, found>>,
              \A t \in Callers \ {s} : scan'[t] = scan[t],
              scan'[s].todo \cup Shown(scan'[s].seen) \subseteq Written
       PROVE  Overlay'
  <2>1. \A t \in Callers : scan'[t].todo \cup Shown(scan'[t].seen) \subseteq Written
    BY <1>12 DEF Overlay
  <2>2. /\ started \subseteq started'
        /\ \A d \in Callers : Listed(d)' => Listed(d) /\ answer'[d] = answer[d] /\ dead'[d] = dead[d]
    BY <1>12 DEF callVars, Listed
  <2> QED
    BY <1>1, <1>12, <2>1, <2>2
<1>13. ASSUME NEW s \in Callers, OpenDir(s) PROVE Overlay'
  <2>1. /\ \A t \in Callers \ {s} : scan'[t] = scan[t]
        /\ scan'[s].todo = Shown(disk) /\ scan'[s].seen = scan[s].seen
    BY <1>0, <1>13 DEF OpenDir, Scans, Scan
  <2>2. scan'[s].todo \cup Shown(scan'[s].seen) \subseteq Written
    BY <2>1 DEF Overlay, Written
  <2> QED
    BY <1>12, <1>13, <2>1, <2>2 DEF OpenDir, fileVars
<1>14. ASSUME NEW s \in Callers, NEW i \in Ids, ReadFile(s, i) PROVE Overlay'
  <2>1. /\ \A t \in Callers \ {s} : scan'[t] = scan[t]
        /\ i \in scan[s].todo /\ scan'[s].todo = scan[s].todo \ {i}
        /\ scan'[s].seen = [scan[s].seen EXCEPT ![i] = disk[i]]
    BY <1>0, <1>14 DEF ReadFile, Scans, Scan
  <2>2. Shown(scan'[s].seen) \subseteq Shown(scan[s].seen) \cup {i}
    BY <1>0, <2>1 DEF Shown, Scans, Scan, Rows
  <2>3. scan'[s].todo \cup Shown(scan'[s].seen) \subseteq Written
    BY <2>1, <2>2 DEF Overlay
  <2> QED
    BY <1>12, <1>14, <2>1, <2>3 DEF ReadFile, fileVars
<1>15. ASSUME NEW s \in Callers, ScanListed(s) PROVE Overlay'
  <2>1. /\ \A t \in Callers \ {s} : scan'[t] = scan[t]
        /\ scan'[s].todo = scan[s].todo /\ scan'[s].seen = scan[s].seen
    BY <1>0, <1>15 DEF ScanListed, Scans, Scan
  <2>2. scan'[s].todo \cup Shown(scan'[s].seen) \subseteq Written
    BY <2>1 DEF Overlay
  <2> QED
    BY <1>12, <1>15, <2>1, <2>2 DEF ScanListed, fileVars
<1>16. ASSUME NEW s \in Callers, ScanEnd(s) PROVE Overlay'
  <2>1. /\ scan[s].step = "listed" /\ s \in Active /\ Waiting(s) \in SUBSET Callers
        /\ UNCHANGED <<disk, gone, op, about, dead>> /\ Ended(s) \in Scans
        /\ \A t \in Callers : Ended(s)[t] \in {scan[t], IdleScan}
        /\ started \subseteq started'
    BY <1>0, <1>16, ScanTypes DEF ScanEnd, Active, Ended, Waiting, fileVars, Scans
  <2>2. CASE scan[s].gen = generation
    <3>1. PICK new : new = Shown(scan[s].seen)
      OBVIOUS
    <3>2. /\ extra' = extra \ new /\ found' = found \cup new
          /\ scan' = Ended(s) /\ Give(Waiting(s), scan[s].seen, {})
      BY <1>16, <2>2, <3>1 DEF ScanEnd
    <3>3. new \cap gone = {}
      BY <2>1, <2>2, <3>1 DEF Current, Freshness, Forgets, Shown
    <3>4. new \subseteq Written
      BY <3>1 DEF Overlay
    <3>5. Written' = Written
      BY <2>1 DEF Written, Shown
    <3>6. \A t \in Callers : scan'[t].todo \cup Shown(scan'[t].seen) \subseteq Written'
      BY <1>0, <2>1, <3>2, <3>5 DEF Overlay
    <3>7. \A d \in Callers : Listed(d)' =>
            \/ Listed(d) /\ answer'[d] = answer[d] /\ dead'[d] = dead[d]
            \/ answer'[d].transient \cap found' = {}
      BY <2>1, <3>2 DEF Give, Listed, TypeOK
    <3>8. /\ found' \subseteq Written /\ extra' \cap found' = {}
          /\ found' \cap gone \subseteq found
      BY <3>2, <3>3, <3>4 DEF Overlay
    <3>9. \A i \in Born \cap Written' : i \in started'
      BY <2>1, <3>5, ListAssumption DEF Overlay
    <3> QED
      BY <3>2, <3>5, <3>6, <3>7, <3>8, <3>9, OverlayKept
  <2>3. CASE scan[s].gen # generation
    <3>1. Serve(Waiting(s), s, generation, cache, Ended(s)) /\ UNCHANGED <<extra, found>>
      BY <1>16, <2>3 DEF ScanEnd
    <3> QED
      BY <1>0, <1>2, <2>1, <3>1
  <2> QED
    BY <2>2, <2>3
<1>17. ASSUME NEW s \in Callers, ScanFails(s) PROVE Overlay'
  <2>1. /\ UNCHANGED <<disk, started, gone, extra, found, op, about, answer, dead>>
        /\ \A t \in Callers : scan'[t] \in {scan[t], IdleScan}
        /\ \A d \in Callers : phase'[d] \in {phase[d], "failed"}
    BY <1>17 DEF ScanFails, Ended, TypeOK, fileVars
  <2>2. \A t \in Callers : scan'[t].todo \cup Shown(scan'[t].seen) \subseteq Written
    BY <1>0, <2>1 DEF Overlay
  <2>3. /\ started \subseteq started'
        /\ \A d \in Callers : Listed(d)' => Listed(d) /\ answer'[d] = answer[d] /\ dead'[d] = dead[d]
    BY <2>1 DEF Listed
  <2> QED
    BY <1>1, <2>1, <2>2, <2>3
<1>18. ASSUME NEW i \in Born, FirstWrite(i) PROVE Overlay'
  <2>1. /\ disk' = [disk EXCEPT ![i] = 1] /\ i \in started
        /\ UNCHANGED <<started, gone, callVars, listVars, extra, found>> /\ Born \subseteq Ids
    BY <1>18, ListAssumption DEF FirstWrite
  <2>2. Written' = Written \cup {i}
    BY <1>0, <2>1 DEF Written, Shown, Rows
  <2>3. /\ started' = started
        /\ \A d \in Callers : Listed(d)' => Listed(d) /\ answer'[d] = answer[d] /\ dead'[d] = dead[d]
        /\ scan' = scan
    BY <2>1 DEF callVars, listVars, Listed
  <2>4. \A j \in Born \cap Written' : j \in started'
    BY <2>1, <2>2, <2>3 DEF Overlay
  <2> QED
    BY <2>1, <2>2, <2>3, <2>4, OverlayKept DEF Overlay
<1>19. CASE Expire \/ UNCHANGED vars
  <2>1. UNCHANGED <<disk, gone, started, callVars, scan, extra, found>>
    BY <1>19 DEF Expire, vars, fileVars, listVars
  <2>2. /\ started \subseteq started'
        /\ \A d \in Callers : Listed(d)' => Listed(d) /\ answer'[d] = answer[d] /\ dead'[d] = dead[d]
    BY <2>1 DEF callVars, Listed
  <2> QED
    BY <1>1, <2>1, <2>2 DEF Overlay
<1> QED
  BY <1>6, <1>7, <1>8, <1>9, <1>10, <1>11, <1>13, <1>14, <1>15, <1>16, <1>17, <1>18, <1>19,
     Zenon DEF Next, ScanStep

\* A list shows every rename that returned before it was called, no file deleted
\* before it was called, and in the overlay no deleted session that a scan had
\* found; a forced one shows every file (apps/daemon/src/read/sessions.ts:75-120).
THEOREM ListsFresh == Spec => []ListIsFresh
<1>1. Init => Joining /\ Finding
  BY ListAssumption, ScanTypes DEF Init, Joining, Joins, Finding, Shown, NoFiles
<1>2. Init => Freshness
  BY ScanTypes DEF Init, Freshness, Forgets, Reaches, Current, Active, NoFiles, Fresh, Lister
<1>3. Init => Overlay
  <2> SUFFICES ASSUME Init PROVE Overlay
    OBVIOUS
  <2>1. /\ disk = [i \in Ids |-> IF i \in Born THEN 0 ELSE 1]
        /\ gone = {} /\ extra = {} /\ found = {}
    BY DEF Init
  <2>2. Born \cap Written = {}
    <3>1. \A i \in Born : disk[i] = 0
      BY <2>1, ListAssumption
    <3>2. \A i \in Born : ~(disk[i] > 0)
      BY <3>1
    <3>3. \A i \in Born : i \notin Shown(disk)
      BY <3>2, Zenon DEF Shown
    <3> QED
      BY <2>1, <3>3, Zenon DEF Written
  <2>3. \A s \in Callers : scan[s].todo = {} /\ Shown(scan[s].seen) = {}
    <3>1. scan = [c \in Callers |-> IdleScan]
      BY DEF Init
    <3>2. IdleScan = [step |-> "idle", gen |-> 0, todo |-> {}, seen |-> NoFiles]
      BY DEF IdleScan, NewScan
    <3>3. Shown(NoFiles) = {}
      BY DEF NoFiles, Shown
    <3> QED
      BY <3>1, <3>2, <3>3
  <2>4. \A c \in Callers : ~Listed(c)
    <3>1. phase = [c \in Callers |-> "none"]
      BY DEF Init
    <3> QED
      BY <3>1 DEF Listed
  <2> QED
    BY <2>1, <2>2, <2>3, <2>4 DEF Overlay
<1>4. Freshness /\ Overlay => ListIsFresh
  BY DEF Freshness, Fresh, Lister, Overlay, Listed, ListIsFresh
<1> QED
  BY <1>1, <1>2, <1>3, <1>4, TypeCorrect, JoiningInductive, FindingInductive, FreshnessInductive,
     OverlayInductive, PTL DEF Spec
=============================================================================
