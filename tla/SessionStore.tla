---------------------------- MODULE SessionStore ----------------------------
(***************************************************************************)
(* The daemon's session index (packages/protocol/src/store.ts): one JSON   *)
(* file, rewritten by add() and remove() as a whole.  A rewrite is four     *)
(* file operations, and nothing keeps the rewrites of two calls apart:     *)
(* both read the same records, and all calls of a process write the same   *)
(* temporary file.                                                         *)
(*                                                                         *)
(* Files are named by inodes, because a rename moves a file that another   *)
(* call may still have open.  An inode is named after the call that        *)
(* created it.  A record is its session id.                                *)
(***************************************************************************)
EXTENDS Naturals, FiniteSets

CONSTANTS
  Ids,        \* session ids
  Calls,      \* the calls that rewrite the index
  Recorded,   \* ids in the index when the process starts
  Boot,       \* the inode of the index at that time
  NoFile      \* no inode

Inodes == Calls \cup {Boot}

ASSUME StoreAssumption == /\ Recorded \subseteq Ids
                          /\ NoFile \notin Inodes
                          /\ Boot \notin Calls

VARIABLES
  target,     \* the inode behind sessions.json
  temp,       \* the inode behind sessions.json.<pid>.tmp
  content,    \* what each inode holds: a state of the text and its records
  rewrite,    \* where each call is, with the records it is to write
  expected,   \* ghost: the ids the calls so far should leave in the index,
              \* while they come one after the other
  overlapped  \* ghost: two rewrites have been under way at once

storeVars == <<target, temp, content, rewrite, expected, overlapped>>

\* Text that parses is "whole", else "empty" or "torn".
Empty == [text |-> "empty", records |-> {}]
Torn == [text |-> "torn", records |-> {}]
Whole(records) == [text |-> "whole", records |-> records]

Idle == [step |-> "none", records |-> {}, file |-> NoFile]
UnderWay == {j \in Calls : rewrite[j].step \in {"read", "open", "write", "rename"}}

StoreTypeOK ==
  /\ target \in Inodes /\ temp \in Inodes \cup {NoFile}
  /\ content \in [Inodes -> [text : {"whole", "empty", "torn"}, records : SUBSET Ids]]
  /\ rewrite \in [Calls -> [step : {"none", "read", "open", "write", "rename", "over"},
                            records : SUBSET Ids, file : Inodes \cup {NoFile}]]
  /\ expected \in SUBSET Ids
  /\ overlapped \in BOOLEAN

StoreInit ==
  /\ target = Boot /\ temp = NoFile
  /\ content = [i \in Inodes |-> IF i = Boot THEN Whole(Recorded) ELSE Empty]
  /\ rewrite = [j \in Calls |-> Idle]
  /\ expected = Recorded
  /\ overlapped = FALSE

\* load(): a file that does not parse is an empty index.
Load == content[target].records

\* add() and remove(), up to the readFile of load(), for the calls made in one
\* step; `ids' is what they should leave.
Submit(made, ids) ==
  /\ rewrite' = [j \in Calls |-> IF j \in made THEN [Idle EXCEPT !.step = "read"]
                                 ELSE rewrite[j]]
  /\ overlapped' = (overlapped \/ Cardinality(UnderWay \cup made) > 1)
  /\ expected' = IF overlapped' THEN {} ELSE ids
  /\ UNCHANGED <<target, temp, content>>

\* The records read, with the call's own change made to them.
Read(j, ids) ==
  /\ rewrite[j].step = "read"
  /\ rewrite' = [rewrite EXCEPT ![j] = [Idle EXCEPT !.step = "open", !.records = ids]]
  /\ UNCHANGED <<target, temp, content, expected, overlapped>>

\* Mutant: the index is written in place.
Open_InPlace(j) ==
  /\ rewrite[j].step = "open"
  /\ temp' = target
  /\ content' = [content EXCEPT ![target] = Empty]
  /\ rewrite' = [rewrite EXCEPT ![j] = [@ EXCEPT !.step = "write", !.file = target]]
  /\ UNCHANGED <<target, expected, overlapped>>

\* writeFile opens the temporary file, and truncates one that is there.
Open(j) ==
  /\ rewrite[j].step = "open"
  /\ LET i == IF temp = NoFile THEN j ELSE temp IN
       /\ temp' = i
       /\ content' = [content EXCEPT ![i] = Empty]
       /\ rewrite' = [rewrite EXCEPT ![j] = [@ EXCEPT !.step = "write", !.file = i]]
  /\ UNCHANGED <<target, expected, overlapped>>

\* writeFile writes from the start of the file; text another call wrote there
\* is covered, or its tail stays behind.
Write(j) ==
  /\ rewrite[j].step = "write"
  /\ LET i == rewrite[j].file IN
       \/ content' = [content EXCEPT ![i] = Whole(rewrite[j].records)]
       \/ content[i] # Empty /\ content' = [content EXCEPT ![i] = Torn]
  /\ rewrite' = [rewrite EXCEPT ![j] = [Idle EXCEPT !.step = "rename"]]
  /\ UNCHANGED <<target, temp, expected, overlapped>>

\* The disk is full: the text is cut, and the call is over without a rename.
WriteFails(j) ==
  /\ rewrite[j].step = "write"
  /\ content' = [content EXCEPT ![rewrite[j].file] = Torn]
  /\ rewrite' = [rewrite EXCEPT ![j] = [Idle EXCEPT !.step = "over"]]
  /\ expected' = IF overlapped THEN {} ELSE Load
  /\ UNCHANGED <<target, temp, overlapped>>

\* rename() moves what is behind the temporary name now; the old index is gone.
Rename(j) ==
  /\ rewrite[j].step = "rename" /\ temp # NoFile
  /\ target' = temp /\ temp' = NoFile
  /\ content' = [content EXCEPT ![target] = Empty]
  /\ rewrite' = [rewrite EXCEPT ![j] = [Idle EXCEPT !.step = "over"]]
  /\ UNCHANGED <<expected, overlapped>>

\* Another call has moved the file already: ENOENT.
RenameFails(j) ==
  /\ rewrite[j].step = "rename" /\ temp = NoFile
  /\ rewrite' = [rewrite EXCEPT ![j] = [Idle EXCEPT !.step = "over"]]
  /\ UNCHANGED <<target, temp, content, expected, overlapped>>

(***************************************************************************)
(* What the index promises.                                                *)
(***************************************************************************)

\* As long as rewrites come one after the other the index is whole at every
\* moment, also between the steps of a rewrite, and holds what the finished
\* calls left (add, remove and persist of store.ts).
SerialIndexIsExact ==
  ~overlapped => /\ content[target].text = "whole"
                 /\ UnderWay = {} => Load = expected
=============================================================================
