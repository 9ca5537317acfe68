----------------------------- MODULE SpoolProofs -----------------------------
(***************************************************************************)
(* Proofs about the spool: nothing collected is lost on the way to the     *)
(* disc, nothing on the disc goes before WiGLE took it, and nothing is     *)
(* sent twice while nothing goes wrong.  They rest on one uploader, on     *)
(* file names that are never used twice and on every row being in one      *)
(* place at a time.                                                        *)
(***************************************************************************)
EXTENDS Spool, FiniteSetTheorems, TLAPS

Names == [at : Nat, seq : Nat, count : Nat]
Spooled == [name : Names, rows : SUBSET Rows]
Places == {"none", "live", "make", "write", "rename", "gone"}

Typed ==
    /\ world \in Worlds /\ now \in Nat /\ heard \in Nat /\ heard <= MaxRows
    /\ account \in BOOLEAN /\ started \in BOOLEAN
    /\ pc \in [Nodes -> Places] /\ going \in [Nodes -> BOOLEAN]
    /\ pending \in [Nodes -> SUBSET (1 .. heard)]
    /\ hand \in [Nodes -> SUBSET (1 .. heard)]
    /\ seq \in [Nodes -> Nat] /\ stamp \in [Nodes -> Nat]
    /\ name \in [Nodes -> Names]
    /\ parts \subseteq Spooled /\ files \subseteq Spooled
    /\ up \in [Uploaders -> {"none", "sleep", "read", "send", "remove"}]
    /\ path \in [Uploaders -> Names] /\ body \in [Uploaders -> SUBSET Rows]
    /\ taken \in [Rows -> 0 .. 2]

\* Only a node between drain and rename has rows in hand.
Busy(n) == pc[n] \in {"write", "rename"}
Hands == \A n \in Nodes : ~Busy(n) => hand[n] = {}

\* Every name was formatted in an earlier second, or in this one by a node
\* that has flushed in it and counted at least as far.
Old(x) ==
    /\ x.at <= now
    /\ x.at = now => \E n \in Nodes : stamp[n] = now /\ x.seq <= seq[n]
OldNames ==
    /\ \A f \in files : Old(f.name)
    /\ \A p \in parts : Old(p.name)
    /\ \A n \in Nodes : Busy(n) => Old(name[n])

\* No two files, and no file and no flush, share a name.
OwnNames ==
    /\ \A f, g \in files : f.name = g.name => f = g
    /\ \A n \in Nodes : Busy(n) => \A f \in files : f.name # name[n]
    /\ \A m, n \in Nodes : Busy(m) /\ Busy(n) /\ name[m] = name[n] => m = n

\* A part about to be renamed is there and has the rows that were drained.
PartsWritten ==
    \A n \in Nodes : pc[n] = "rename" =>
        /\ \E p \in parts : p.name = name[n]
        /\ \A p \in parts : p.name = name[n] => p.rows = hand[n]

\* A row is in one node's memory or in one file.
Apart ==
    /\ \A m, n \in Nodes : pending[m] \cap hand[n] = {}
    /\ \A m, n \in Nodes : m # n =>
         pending[m] \cap pending[n] = {} /\ hand[m] \cap hand[n] = {}
    /\ \A f \in files : f.rows \subseteq 1 .. heard
    /\ \A f \in files : \A n \in Nodes :
         f.rows \cap pending[n] = {} /\ f.rows \cap hand[n] = {}
    /\ \A f, g \in files : f # g => f.rows \cap g.rows = {}

\* One thread uploads, and it has the file it is about as it is on the disc.
OneUploader ==
    /\ \A u \in Uploaders : up[u] # "none" => started
    /\ \A u, v \in Uploaders : up[u] # "none" /\ up[v] # "none" => u = v
Uploading ==
    /\ \A u \in Uploaders : up[u] \in {"send", "remove"} =>
         \E f \in files : f.name = path[u] /\ f.rows = body[u]
    /\ \A u \in Uploaders : up[u] = "remove" => \A r \in body[u] : taken[r] > 0

\* While nothing goes wrong a row is not taken until it is about to go.
Untaken ==
    /\ \A r \in Rows : taken[r] < 2
    /\ \A r \in Rows : heard < r => taken[r] = 0
    /\ \A n \in Nodes : \A r \in pending[n] \cup hand[n] : taken[r] = 0
    /\ \A f \in files : \A r \in f.rows :
         taken[r] = 0 \/ \E u \in Uploaders : up[u] = "remove" /\ path[u] = f.name

\* A row that was collected is in memory, in a file, given up or taken.
Kept(r) ==
    \/ \E n \in Nodes : r \in pending[n] \/ r \in hand[n]
    \/ \E f \in files : r \in f.rows
    \/ r \in given
    \/ taken[r] > 0
AllKept == \A r \in 1 .. heard : Kept(r)

Calm == OldNames /\ OwnNames /\ PartsWritten /\ Apart /\ Uploading

Inv ==
    /\ Typed /\ Hands /\ OneUploader
    /\ ~Brisk => Calm
    /\ ~Brisk /\ ~Failing => AllKept
    /\ world = {} => Untaken

-----------------------------------------------------------------------------
(* Steps that leave whole groups of variables alone.                       *)

\* Pending rows are finitely many, so the name's row count is a number.
LEMMA PendingIsCounted ==
    ASSUME Typed, NEW n \in Nodes
    PROVE  Cardinality(pending[n]) \in Nat
<1>1. heard \in Nat /\ pending[n] \subseteq 1 .. heard
  BY DEF Typed
<1>2. IsFiniteSet(1 .. heard)
  BY <1>1, FS_Interval
<1> QED
  BY <1>1, <1>2, FS_Subset, FS_CardinalityType

\* A world without faults is neither brisk nor failing.
LEMMA QuietIsCalm == world = {} => ~Brisk /\ ~Failing
  BY DEF Brisk, Failing

\* The names stay as they are when no name, stamp or second changes.
LEMMA NamesAlone ==
    ASSUME Inv, ~Brisk, UNCHANGED <<now, name, seq, stamp, parts, files, hand>>,
           \A n \in Nodes : (Busy(n))' => Busy(n),
           \A n \in Nodes : pc'[n] = "rename" => pc[n] = "rename"
    PROVE  OldNames' /\ OwnNames' /\ PartsWritten'
  BY DEF Inv, Calm, OldNames, OwnNames, PartsWritten, Old, Busy

\* The node's half of the invariant does not see the uploader's variables.
LEMMA UploadersAlone ==
    ASSUME Inv, UNCHANGED <<up, path, body, started, files, taken>>
    PROVE  OneUploader' /\ (~Brisk => Uploading')
  BY DEF Inv, Calm, OneUploader, Uploading

-----------------------------------------------------------------------------
(* The node's actions.                                                     *)

LEMMA OpenKeeps == ASSUME Inv, NEW n \in Nodes, Open(n) PROVE Inv'
<1> USE DEF Open, StartUploader, AlreadyStarted, clock, node, disc, sender, past, feed
<1>1. Typed'
  BY DEF Inv, Typed, Places
<1>2. Hands'
  BY DEF Inv, Hands, Busy, Typed
<1>3. OneUploader'
  BY DEF Inv, OneUploader, Typed
<1>4. ASSUME ~Brisk PROVE Calm'
  <2>1. OldNames' /\ OwnNames' /\ PartsWritten'
    BY <1>4, NamesAlone DEF Inv, Typed, Busy, Places
  <2>2. Apart'
    BY <1>4 DEF Inv, Calm, Apart
  <2>3. Uploading'
    BY <1>4 DEF Inv, Calm, Uploading, Typed
  <2> QED
    BY <2>1, <2>2, <2>3 DEF Calm
<1>5. ASSUME ~Brisk, ~Failing PROVE AllKept'
  BY <1>5 DEF Inv, AllKept, Kept
<1>6. ASSUME world = {} PROVE Untaken'
  BY <1>6 DEF Inv, Untaken, Typed
<1> QED
  BY <1>1, <1>2, <1>3, <1>4, <1>5, <1>6 DEF Inv, Brisk, Failing

LEMMA SetAccountKeeps ==
    ASSUME Inv, NEW n \in Nodes, NEW set \in BOOLEAN, SetAccount(n, set) PROVE Inv'
<1> USE DEF SetAccount, clock, node, disc, sender, past, feed
<1>0. \A m \in Nodes : pending'[m] \subseteq pending[m]
  BY DEF Inv, Typed
<1>1. Typed'
  BY DEF Inv, Typed
<1>2. Hands'
  BY DEF Inv, Hands, Busy
<1>3. OneUploader' /\ (~Brisk => Uploading')
  BY UploadersAlone
<1>4. ASSUME ~Brisk PROVE Calm'
  <2>1. OldNames' /\ OwnNames' /\ PartsWritten'
    BY <1>4, NamesAlone DEF Busy
  <2>2. Apart'
    BY <1>4, <1>0 DEF Inv, Calm, Apart
  <2> QED
    BY <1>3, <1>4, <2>1, <2>2 DEF Calm
<1>5. ASSUME ~Brisk, ~Failing PROVE AllKept'
  <2>1. \A m \in Nodes : \A r \in pending[m] : r \in pending'[m] \/ r \in given'
    BY DEF Inv, Typed
  <2> QED
    BY <1>5, <2>1 DEF Inv, AllKept, Kept
<1>6. ASSUME world = {} PROVE Untaken'
  BY <1>6, <1>0 DEF Inv, Untaken
<1> QED
  BY <1>1, <1>2, <1>3, <1>4, <1>5, <1>6 DEF Inv, Brisk, Failing

LEMMA ProcessKeeps ==
    ASSUME Inv, NEW n \in Nodes, NEW aged \in BOOLEAN, NEW new,
           new = {} \/ (heard < MaxRows /\ new = {heard + 1}), Process(n, new, aged)
    PROVE  Inv'
<1> USE DEF Process, clock, node, disc, sender, past, feed
<1>0. Cardinality(new) = (IF new = {} THEN 0 ELSE 1)
  BY FS_EmptySet, FS_Singleton
<1>1. /\ heard \in Nat /\ heard' \in Nat /\ heard <= heard' /\ heard' <= MaxRows
      /\ 1 .. heard' = (1 .. heard) \cup new /\ new \cap (1 .. heard) = {}
      /\ new \subseteq Rows
  BY <1>0, SpoolAssumption DEF Inv, Typed, Rows
<1>2. \A m \in Nodes : pending'[m] = IF m = n THEN pending[m] \cup new ELSE pending[m]
  BY DEF Inv, Typed
<1>3. Typed'
  BY <1>1, <1>2 DEF Inv, Typed, Places
<1>4. Hands'
  BY DEF Inv, Hands, Busy, Typed
<1>5. OneUploader' /\ (~Brisk => Uploading')
  BY UploadersAlone
<1>6. ASSUME ~Brisk PROVE Calm'
  <2>1. OldNames' /\ OwnNames' /\ PartsWritten'
    BY <1>6, NamesAlone DEF Inv, Typed, Busy
  <2>2. Apart'
    BY <1>6, <1>1, <1>2 DEF Inv, Calm, Apart, Typed
  <2> QED
    BY <1>5, <1>6, <2>1, <2>2 DEF Calm
<1>7. ASSUME ~Brisk, ~Failing PROVE AllKept'
  <2>1. \A r \in 1 .. heard : Kept(r)'
    BY <1>7, <1>2 DEF Inv, AllKept, Kept
  <2>2. \A r \in new : Kept(r)'
    BY <1>2 DEF Kept
  <2> QED
    BY <1>1, <2>1, <2>2 DEF AllKept
<1>8. ASSUME world = {} PROVE Untaken'
  <2>1. \A r \in new : taken[r] = 0
    BY <1>8, <1>1 DEF Inv, Untaken, Rows
  <2> QED
    BY <1>8, <1>1, <1>2, <2>1 DEF Inv, Untaken, Rows
<1> QED
  BY <1>3, <1>4, <1>5, <1>6, <1>7, <1>8 DEF Inv, Brisk, Failing

LEMMA DropKeeps == ASSUME Inv, NEW n \in Nodes, Drop(n) PROVE Inv'
<1> USE DEF Drop, clock, node, disc, sender, past, feed
<1>1. Typed'
  BY DEF Inv, Typed, Places
<1>2. Hands'
  BY DEF Inv, Hands, Busy, Typed
<1>3. OneUploader' /\ (~Brisk => Uploading')
  BY UploadersAlone
<1>4. ASSUME ~Brisk PROVE Calm'
  <2>1. OldNames' /\ OwnNames' /\ PartsWritten'
    BY <1>4, NamesAlone DEF Inv, Typed, Busy
  <2>2. Apart'
    BY <1>4 DEF Inv, Calm, Apart
  <2> QED
    BY <1>3, <1>4, <2>1, <2>2 DEF Calm
<1>5. ASSUME ~Brisk, ~Failing PROVE AllKept'
  BY <1>5 DEF Inv, AllKept, Kept
<1>6. ASSUME world = {} PROVE Untaken'
  BY <1>6 DEF Inv, Untaken
<1> QED
  BY <1>1, <1>2, <1>3, <1>4, <1>5, <1>6 DEF Inv, Brisk, Failing

LEMMA NoDirectoryKeeps == ASSUME Inv, NEW n \in Nodes, NoDirectory(n) PROVE Inv'
<1> USE DEF NoDirectory, Back, clock, node, disc, sender, past, feed
<1>0. \A m \in Nodes : pending'[m] \subseteq pending[m]
  BY DEF Inv, Typed
<1>1. Typed'
  BY DEF Inv, Typed, Places
<1>2. Hands'
  BY DEF Inv, Hands, Busy, Typed
<1>3. OneUploader' /\ (~Brisk => Uploading')
  BY UploadersAlone
<1>4. ASSUME ~Brisk PROVE Calm'
  <2>1. OldNames' /\ OwnNames' /\ PartsWritten'
    BY <1>4, NamesAlone DEF Inv, Typed, Busy
  <2>2. Apart'
    BY <1>4, <1>0 DEF Inv, Calm, Apart
  <2> QED
    BY <1>3, <1>4, <2>1, <2>2 DEF Calm
<1>5. Failing /\ world # {}
  BY QuietIsCalm
<1> QED
  BY <1>1, <1>2, <1>3, <1>4, <1>5 DEF Inv, Brisk, Failing

\* The name a calm node formats was never used, and the used ones stay old.
LEMMA NextNameIsNew ==
    ASSUME Inv, ~Brisk, NEW n \in Nodes, Drain(n), NEW x \in Names, Old(x)
    PROVE  /\ x # name'[n] /\ x.at <= now'
           /\ x.at = now' => \E m \in Nodes : stamp'[m] = now' /\ x.seq <= seq'[m]
<1>1. name'[n].at = now /\ name'[n].seq = seq[n] + 1
  BY DEF Drain, Inv, Typed, NextSeq
<1>2. \A m \in Nodes \ {n} : stamp[m] # now
  BY DEF Drain
<1>3. x.at <= now /\ (x.at = now => x.seq <= seq[n])
  BY <1>2 DEF Old
<1>4. seq[n] \in Nat /\ seq'[n] = seq[n] + 1 /\ stamp'[n] = now /\ now' = now
  BY DEF Drain, Inv, Typed, NextSeq, clock
<1> QED
  BY <1>1, <1>3, <1>4 DEF Names

LEMMA DrainKeeps == ASSUME Inv, NEW n \in Nodes, Drain(n) PROVE Inv'
<1>0. /\ pc[n] = "make" /\ pc' = [pc EXCEPT ![n] = "write"]
      /\ UNCHANGED <<world, now, heard, account, started, going, parts, files, up, path,
                     body, taken, given, kills>>
  BY DEF Drain, clock, feed, disc, sender, past
<1>1. Typed'
  <2>1. Cardinality(pending[n]) \in Nat
    BY PendingIsCounted DEF Inv
  <2>2. seq' \in [Nodes -> Nat] /\ stamp' \in [Nodes -> Nat]
    BY DEF Inv, Typed, Drain, NextSeq
  <2>3. name' \in [Nodes -> Names]
    BY <2>1, <2>2 DEF Inv, Typed, Drain, Names
  <2>4. hand' \in [Nodes -> SUBSET (1 .. heard)] /\ pending' \in [Nodes -> SUBSET (1 .. heard)]
    BY DEF Inv, Typed, Drain
  <2> QED
    BY <1>0, <2>2, <2>3, <2>4 DEF Inv, Typed, Places
<1>2. /\ \A m \in Nodes : pending'[m] = IF m = n THEN {} ELSE pending[m]
      /\ \A m \in Nodes : hand'[m] = IF m = n THEN pending[n] ELSE hand[m]
      /\ \A m \in Nodes : m # n => name'[m] = name[m]
      /\ \A m \in Nodes : (Busy(m))' <=> m = n \/ Busy(m)
      /\ hand[n] = {}
  BY <1>0 DEF Drain, Inv, Typed, Busy, Hands
<1>3. Hands'
  BY <1>2 DEF Inv, Hands
<1>4. OneUploader' /\ (~Brisk => Uploading')
  BY <1>0, UploadersAlone
<1>5. ASSUME ~Brisk PROVE Calm'
  <2>1. /\ \A f \in files : f.name \in Names /\ Old(f.name)
        /\ \A p \in parts : p.name \in Names /\ Old(p.name)
        /\ \A m \in Nodes : Busy(m) => name[m] \in Names /\ Old(name[m])
    BY <1>5 DEF Inv, Typed, Calm, OldNames, Spooled
  <2>2. /\ \A f \in files : f.name # name'[n]
        /\ \A m \in Nodes : Busy(m) => name[m] # name'[n]
    BY <1>5, <2>1, NextNameIsNew
  <2>3. \A x \in Names : Old(x) =>
          /\ x.at <= now'
          /\ x.at = now' => \E m \in Nodes : stamp'[m] = now' /\ x.seq <= seq'[m]
    BY <1>5, NextNameIsNew
  <2>4. OldNames'
    <3>1. /\ \A f \in files' : Old(f.name)'
          /\ \A p \in parts' : Old(p.name)'
      BY <1>0, <2>1, <2>3 DEF Old
    <3>2. \A m \in Nodes : Busy(m) => Old(name[m])'
      <4>1. \A m \in Nodes : Busy(m) => name'[m] = name[m]
        BY <1>0, <1>2 DEF Busy
      <4> QED
        BY <2>1, <2>3, <4>1 DEF Old
    <3>3. Old(name[n])'
      BY <1>0 DEF Drain, Inv, Typed, Old, NextSeq
    <3> QED
      BY <1>2, <3>1, <3>2, <3>3 DEF OldNames
  <2>5. OwnNames'
    BY <1>0, <1>2, <1>5, <2>2 DEF Inv, Calm, OwnNames
  <2>6. PartsWritten'
    BY <1>0, <1>2, <1>5 DEF Inv, Calm, PartsWritten, Busy, Typed
  <2>7. Apart'
    BY <1>0, <1>2, <1>5 DEF Inv, Calm, Apart
  <2> QED
    BY <1>4, <1>5, <2>4, <2>5, <2>6, <2>7 DEF Calm
<1>6. ASSUME ~Brisk, ~Failing PROVE AllKept'
  BY <1>0, <1>2, <1>6 DEF Inv, AllKept, Kept
<1>7. ASSUME world = {} PROVE Untaken'
  BY <1>0, <1>2, <1>7 DEF Inv, Untaken
<1> QED
  BY <1>0, <1>1, <1>3, <1>4, <1>5, <1>6, <1>7 DEF Inv, Brisk, Failing

LEMMA WriteKeeps == ASSUME Inv, NEW n \in Nodes, Write(n) PROVE Inv'
<1>0. /\ pc[n] = "write" /\ pc' = [pc EXCEPT ![n] = "rename"]
      /\ parts' = Put(parts, name[n], hand[n])
      /\ UNCHANGED <<world, now, heard, account, started, going, pending, seq, name, hand,
                     stamp, files, up, path, body, taken, given, kills>>
  BY DEF Write, clock, feed, sender, past
<1>1. /\ \A p \in parts' : p.name = name[n] => p.rows = hand[n]
      /\ \A p \in parts' : p.name # name[n] => p \in parts
      /\ \A p \in parts : p.name # name[n] => p \in parts'
      /\ \E p \in parts' : p.name = name[n]
  <2> DEFINE new == [name |-> name[n], rows |-> hand[n]]
  <2>1. new.name = name[n] /\ new.rows = hand[n]
    OBVIOUS
  <2>2. parts' = {p \in parts : p.name # name[n]} \cup {new}
    BY <1>0 DEF Put, Without
  <2> HIDE DEF new
  <2> QED
    BY <2>1, <2>2
<1>2. Typed'
  <2>1. [name |-> name[n], rows |-> hand[n]] \in Spooled
    BY SpoolAssumption DEF Inv, Typed, Spooled, Rows
  <2>2. parts' \subseteq Spooled
    BY <1>0, <2>1 DEF Inv, Typed, Put, Without
  <2> QED
    BY <1>0, <2>2 DEF Inv, Typed, Places
<1>3. \A m \in Nodes : (Busy(m))' <=> Busy(m)
  BY <1>0 DEF Inv, Typed, Busy
<1>4. Hands'
  BY <1>0, <1>3 DEF Inv, Hands
<1>5. OneUploader' /\ (~Brisk => Uploading')
  BY <1>0, UploadersAlone
<1>6. ASSUME ~Brisk PROVE Calm'
  <2>1. OldNames'
    BY <1>0, <1>1, <1>3, <1>6 DEF Inv, Calm, OldNames, Old, Busy
  <2>2. OwnNames'
    BY <1>0, <1>3, <1>6 DEF Inv, Calm, OwnNames
  <2>3. PartsWritten'
    <3>1. \A m \in Nodes \ {n} : Busy(m) => name[m] # name[n]
      BY <1>0, <1>6 DEF Inv, Calm, OwnNames, Busy
    <3> QED
      BY <1>0, <1>1, <1>6, <3>1 DEF Inv, Calm, PartsWritten, Typed, Busy
  <2>4. Apart'
    BY <1>0, <1>6 DEF Inv, Calm, Apart
  <2> QED
    BY <1>5, <1>6, <2>1, <2>2, <2>3, <2>4 DEF Calm
<1>7. ASSUME ~Brisk, ~Failing PROVE AllKept'
  BY <1>0, <1>7 DEF Inv, AllKept, Kept
<1>8. ASSUME world = {} PROVE Untaken'
  BY <1>0, <1>8 DEF Inv, Untaken
<1> QED
  BY <1>0, <1>2, <1>4, <1>5, <1>6, <1>7, <1>8 DEF Inv, Brisk, Failing

\* Leaving flush.
LEMMA EndFlushMeans ==
    ASSUME Inv, NEW n \in Nodes, EndFlush(n)
    PROVE  /\ pc' \in [Nodes -> Places] /\ pc'[n] \in {"gone", "live"}
           /\ \A m \in Nodes : m # n => pc'[m] = pc[m]
           /\ hand' \in [Nodes -> SUBSET (1 .. heard)] /\ name' \in [Nodes -> Names]
           /\ \A m \in Nodes : hand'[m] = IF m = n THEN {} ELSE hand[m]
           /\ \A m \in Nodes : m # n => name'[m] = name[m]
           /\ \A m \in Nodes : (Busy(m))' <=> m # n /\ Busy(m)
  BY DEF Inv, Typed, EndFlush, Back, Places, Names, NoName, Busy

LEMMA SpillKeeps == ASSUME Inv, NEW n \in Nodes, Spill(n) PROVE Inv'
<1>0. /\ EndFlush(n) /\ Failing /\ world # {}
      /\ UNCHANGED <<world, now, heard, account, started, going, pending, seq, stamp, parts,
                     files, up, path, body, taken, given, kills>>
  BY QuietIsCalm DEF Spill, clock, feed, disc, sender, past
<1>1. /\ pc' \in [Nodes -> Places] /\ pc'[n] \in {"gone", "live"}
      /\ \A m \in Nodes : m # n => pc'[m] = pc[m]
      /\ hand' \in [Nodes -> SUBSET (1 .. heard)] /\ name' \in [Nodes -> Names]
      /\ \A m \in Nodes : hand'[m] = IF m = n THEN {} ELSE hand[m]
      /\ \A m \in Nodes : m # n => name'[m] = name[m]
      /\ \A m \in Nodes : (Busy(m))' <=> m # n /\ Busy(m)
  BY <1>0, EndFlushMeans
<1>2. Typed' /\ Hands'
  BY <1>0, <1>1 DEF Inv, Typed, Hands
<1>3. OneUploader' /\ (~Brisk => Uploading')
  BY <1>0, UploadersAlone
<1>4. ASSUME ~Brisk PROVE Calm'
  <2>1. OldNames'
    BY <1>0, <1>1, <1>4 DEF Inv, Calm, OldNames, Old
  <2>2. OwnNames'
    BY <1>0, <1>1, <1>4 DEF Inv, Calm, OwnNames
  <2>3. PartsWritten'
    BY <1>0, <1>1, <1>4 DEF Inv, Calm, PartsWritten
  <2>4. Apart'
    BY <1>0, <1>1, <1>4 DEF Inv, Calm, Apart
  <2> QED
    BY <1>3, <1>4, <2>1, <2>2, <2>3, <2>4 DEF Calm
<1> QED
  BY <1>0, <1>2, <1>3, <1>4 DEF Inv, Brisk, Failing

LEMMA RenameKeeps == ASSUME Inv, NEW n \in Nodes, Rename(n) PROVE Inv'
<1>0. /\ EndFlush(n) /\ pc[n] = "rename"
      /\ UNCHANGED <<world, now, heard, account, started, going, pending, seq, stamp, up,
                     path, body, taken, given, kills>>
  BY DEF Rename, clock, feed, sender, past
<1>1. /\ pc' \in [Nodes -> Places] /\ pc'[n] \in {"gone", "live"}
      /\ \A m \in Nodes : m # n => pc'[m] = pc[m]
      /\ hand' \in [Nodes -> SUBSET (1 .. heard)] /\ name' \in [Nodes -> Names]
      /\ \A m \in Nodes : hand'[m] = IF m = n THEN {} ELSE hand[m]
      /\ \A m \in Nodes : m # n => name'[m] = name[m]
      /\ \A m \in Nodes : (Busy(m))' <=> m # n /\ Busy(m)
  BY <1>0, EndFlushMeans
<1>2. parts' \subseteq parts /\ \A p \in parts : p.name # name[n] => p \in parts'
  BY DEF Rename, Without, disc
<1>3. Typed'
  <2>1. files' \subseteq Spooled
    BY DEF Inv, Typed, Rename, Put, Without, Spooled, disc
  <2> QED
    BY <1>0, <1>1, <1>2, <2>1 DEF Inv, Typed
<1>4. Hands'
  BY <1>0, <1>1 DEF Inv, Hands
<1>5. OneUploader'
  BY <1>0 DEF Inv, OneUploader
<1>6. ASSUME ~Brisk
      PROVE  files' = files \cup {[name |-> name[n], rows |-> hand[n]]}
  <2>1. PartsWritten /\ \A f \in files : f.name # name[n]
    BY <1>0, <1>6 DEF Inv, Calm, OwnNames, Busy
  <2>2. PICK p \in parts : p.name = name[n] /\ files' = Put(files, name[n], p.rows)
    BY <1>0, <2>1 DEF Rename, PartsWritten
  <2>3. p.rows = hand[n] /\ Without(files, name[n]) = files
    BY <1>0, <2>1, <2>2 DEF PartsWritten, Without
  <2> QED
    BY <2>2, <2>3 DEF Put
<1>7. ASSUME ~Brisk PROVE Calm'
  <2> DEFINE new == [name |-> name[n], rows |-> hand[n]]
  <2>0. /\ files' = files \cup {new} /\ new.name = name[n] /\ new.rows = hand[n]
        /\ hand[n] \subseteq 1 .. heard /\ Busy(n)
    BY <1>0, <1>6, <1>7 DEF Inv, Typed, Busy
  <2> HIDE DEF new
  <2>1. OldNames'
    BY <1>0, <1>1, <1>2, <1>7, <2>0 DEF Inv, Calm, OldNames, Old
  <2>2. OwnNames'
    BY <1>0, <1>1, <1>7, <2>0 DEF Inv, Calm, OwnNames
  <2>3. PartsWritten'
    <3>1. \A m \in Nodes \ {n} : Busy(m) => name[m] # name[n]
      BY <1>7, <2>0 DEF Inv, Calm, OwnNames
    <3> QED
      BY <1>0, <1>1, <1>2, <1>7, <3>1 DEF Inv, Calm, PartsWritten, Busy
  <2>4. Apart'
    BY <1>0, <1>1, <1>7, <2>0 DEF Inv, Calm, Apart
  <2>5. Uploading'
    BY <1>0, <1>7, <2>0 DEF Inv, Calm, Uploading
  <2> QED
    BY <2>1, <2>2, <2>3, <2>4, <2>5 DEF Calm
<1>8. ASSUME ~Brisk, ~Failing PROVE AllKept'
  <2> DEFINE new == [name |-> name[n], rows |-> hand[n]]
  <2>1. files' = files \cup {new} /\ new.rows = hand[n]
    BY <1>6, <1>8
  <2> HIDE DEF new
  <2>2. ASSUME NEW r \in 1 .. heard PROVE Kept(r)'
    <3>1. Kept(r)
      BY <1>8 DEF Inv, AllKept
    <3>2. CASE r \in hand[n]
      BY <2>1, <3>2 DEF Kept
    <3>3. CASE r \notin hand[n]
      BY <1>0, <1>1, <2>1, <3>1, <3>3 DEF Kept
    <3> QED
      BY <3>2, <3>3
  <2> QED
    BY <1>0, <2>2 DEF AllKept
<1>9. ASSUME world = {} PROVE Untaken'
  <2>1. files' = files \cup {[name |-> name[n], rows |-> hand[n]]}
    BY <1>6, <1>9, QuietIsCalm
  <2> QED
    BY <1>0, <1>1, <1>9, <2>1 DEF Inv, Untaken
<1> QED
  BY <1>0, <1>3, <1>4, <1>5, <1>7, <1>8, <1>9 DEF Inv, Brisk, Failing

-----------------------------------------------------------------------------
(* The uploader's actions.                                                 *)

\* What an upload step leaves of the node's half.
LEMMA NodesAlone ==
    ASSUME Inv, ~Brisk, UNCHANGED <<now, heard, node, parts>>, files' \subseteq files
    PROVE  OldNames' /\ OwnNames' /\ PartsWritten' /\ Apart'
<1> USE DEF node
<1>1. OldNames' /\ OwnNames' /\ PartsWritten'
  BY DEF Inv, Calm, OldNames, OwnNames, PartsWritten, Old, Busy
<1>2. Apart'
  BY DEF Inv, Calm, Apart
<1> QED
  BY <1>1, <1>2

LEMMA PollKeeps == ASSUME Inv, NEW u \in Uploaders, Poll(u) PROVE Inv'
<1>0. /\ up' = [up EXCEPT ![u] = "read"] /\ up[u] = "sleep"
      /\ UNCHANGED <<clock, heard, feed, node, disc, body, taken, past>>
  BY DEF Poll
<1>1. path' \in [Uploaders -> Names] /\ \A v \in Uploaders : v # u => path'[v] = path[v]
  BY DEF Poll, Inv, Typed, Spooled
<1>2. Typed'
  BY <1>0, <1>1 DEF Inv, Typed, clock, feed, node, disc
<1>3. Hands' /\ OneUploader'
  BY <1>0 DEF Inv, Typed, Hands, Busy, OneUploader, node, feed
<1>4. ASSUME ~Brisk PROVE Calm'
  <2>1. Uploading'
    BY <1>0, <1>1, <1>4 DEF Inv, Typed, Calm, Uploading, disc
  <2> QED
    BY <1>0, <1>4, <2>1, NodesAlone DEF Calm, clock, disc
<1>5. ASSUME ~Brisk, ~Failing PROVE AllKept'
  BY <1>0, <1>5 DEF Inv, AllKept, Kept, node, disc, past
<1>6. ASSUME world = {} PROVE Untaken'
  BY <1>0, <1>1, <1>6 DEF Inv, Typed, Untaken, node, disc
<1> QED
  BY <1>0, <1>2, <1>3, <1>4, <1>5, <1>6 DEF Inv, Brisk, Failing, clock

LEMMA ReadKeeps == ASSUME Inv, NEW u \in Uploaders, Read(u) PROVE Inv'
<1>0. /\ up' = [up EXCEPT ![u] = "send"] /\ up[u] = "read"
      /\ UNCHANGED <<clock, heard, feed, node, disc, path, taken, past>>
  BY DEF Read
<1>1. /\ body' \in [Uploaders -> SUBSET Rows]
      /\ \A v \in Uploaders : v # u => body'[v] = body[v]
      /\ \E f \in files : f.name = path[u] /\ f.rows = body'[u]
  BY DEF Read, Inv, Typed, Spooled
<1>2. Typed'
  BY <1>0, <1>1 DEF Inv, Typed, clock, feed, node, disc
<1>3. Hands' /\ OneUploader'
  BY <1>0 DEF Inv, Typed, Hands, Busy, OneUploader, node, feed
<1>4. ASSUME ~Brisk PROVE Calm'
  <2>1. Uploading'
    BY <1>0, <1>1, <1>4 DEF Inv, Typed, Calm, Uploading, disc
  <2> QED
    BY <1>0, <1>4, <2>1, NodesAlone DEF Calm, clock, disc
<1>5. ASSUME ~Brisk, ~Failing PROVE AllKept'
  BY <1>0, <1>5 DEF Inv, AllKept, Kept, node, disc, past
<1>6. ASSUME world = {} PROVE Untaken'
  BY <1>0, <1>1, <1>6 DEF Inv, Typed, Untaken, node, disc
<1> QED
  BY <1>0, <1>2, <1>3, <1>4, <1>5, <1>6 DEF Inv, Brisk, Failing, clock

\* Ending an attempt.
LEMMA EndUploadMeans ==
    ASSUME Inv, NEW u \in Uploaders, EndUpload(u)
    PROVE  /\ up' \in [Uploaders -> {"none", "sleep", "read", "send", "remove"}]
           /\ path' \in [Uploaders -> Names] /\ body' \in [Uploaders -> SUBSET Rows]
           /\ up'[u] = "sleep"
           /\ \A v \in Uploaders : v # u =>
                up'[v] = up[v] /\ path'[v] = path[v] /\ body'[v] = body[v]
  BY DEF Inv, Typed, EndUpload, Names, NoName

LEMMA UnreadableKeeps == ASSUME Inv, NEW u \in Uploaders, Unreadable(u) PROVE Inv'
<1>0. /\ up[u] = "read" /\ EndUpload(u)
      /\ UNCHANGED <<clock, heard, feed, node, disc, taken, past>>
  BY DEF Unreadable
<1>1. /\ up' \in [Uploaders -> {"none", "sleep", "read", "send", "remove"}]
      /\ path' \in [Uploaders -> Names] /\ body' \in [Uploaders -> SUBSET Rows]
      /\ up'[u] = "sleep"
      /\ \A v \in Uploaders : v # u =>
           up'[v] = up[v] /\ path'[v] = path[v] /\ body'[v] = body[v]
  BY <1>0, EndUploadMeans
<1>2. Typed'
  BY <1>0, <1>1 DEF Inv, Typed, clock, feed, node, disc
<1>3. Hands' /\ OneUploader'
  BY <1>0, <1>1 DEF Inv, Hands, Busy, OneUploader, node, feed
<1>4. ASSUME ~Brisk PROVE Calm'
  <2>1. Uploading'
    BY <1>0, <1>1, <1>4 DEF Inv, Calm, Uploading, disc
  <2> QED
    BY <1>0, <1>4, <2>1, NodesAlone DEF Calm, clock, disc
<1>5. ASSUME ~Brisk, ~Failing PROVE AllKept'
  BY <1>0, <1>5 DEF Inv, AllKept, Kept, node, disc, past
<1>6. ASSUME world = {} PROVE Untaken'
  BY <1>0, <1>1, <1>6 DEF Inv, Untaken, node, disc
<1> QED
  BY <1>0, <1>2, <1>3, <1>4, <1>5, <1>6 DEF Inv, Brisk, Failing, clock

\* What WiGLE has is only ever more.
LEMMA TakeMeans ==
    ASSUME Inv, NEW rows, rows \subseteq Rows, Take(rows)
    PROVE  /\ taken' \in [Rows -> 0 .. 2]
           /\ \A r \in Rows : taken[r] > 0 => taken'[r] > 0
           /\ \A r \in rows : taken'[r] > 0
           /\ \A r \in Rows \ rows : taken'[r] = taken[r]
           /\ \A r \in rows : taken[r] = 0 => taken'[r] = 1
  BY DEF Inv, Typed, Take, More

LEMMA TakenKeeps == ASSUME Inv, NEW u \in Uploaders, Taken(u) PROVE Inv'
<1>0. /\ up' = [up EXCEPT ![u] = "remove"] /\ up[u] = "send" /\ Take(body[u])
      /\ UNCHANGED <<clock, heard, feed, node, disc, path, body, past>>
      /\ body[u] \subseteq Rows
  BY DEF Taken, Inv, Typed
<1>1. /\ taken' \in [Rows -> 0 .. 2]
      /\ \A r \in Rows : taken[r] > 0 => taken'[r] > 0
      /\ \A r \in body[u] : taken'[r] > 0
      /\ \A r \in Rows \ body[u] : taken'[r] = taken[r]
      /\ \A r \in body[u] : taken[r] = 0 => taken'[r] = 1
  BY <1>0, TakeMeans
<1>2. Typed'
  BY <1>0, <1>1 DEF Inv, Typed, clock, feed, node, disc
<1>3. Hands' /\ OneUploader'
  BY <1>0 DEF Inv, Typed, Hands, Busy, OneUploader, node, feed
<1>4. ASSUME ~Brisk PROVE Calm'
  <2>1. Uploading'
    BY <1>0, <1>1, <1>4 DEF Inv, Typed, Calm, Uploading, disc
  <2> QED
    BY <1>0, <1>4, <2>1, NodesAlone DEF Calm, clock, disc
<1>5. ASSUME ~Brisk, ~Failing PROVE AllKept'
  <2>1. \A r \in 1 .. heard : r \in Rows
    BY SpoolAssumption DEF Inv, Typed, Rows
  <2> QED
    BY <1>0, <1>1, <1>5, <2>1 DEF Inv, AllKept, Kept, node, disc, past
<1>6. ASSUME world = {} PROVE Untaken'
  <2>1. ~Brisk
    BY <1>6, QuietIsCalm
  <2>2. PICK f \in files : f.name = path[u] /\ f.rows = body[u]
    BY <1>0, <2>1 DEF Inv, Calm, Uploading
  <2>3. \A v \in Uploaders : up[v] # "remove"
    BY <1>0 DEF Inv, OneUploader
  <2>4. \A r \in body[u] : taken[r] = 0
    BY <1>6, <2>2, <2>3 DEF Inv, Untaken
  <2>5. \A r \in Rows : taken'[r] < 2
    BY <1>1, <1>6, <2>4 DEF Inv, Untaken
  <2>6. \A r \in Rows : heard < r => taken'[r] = 0
    <3>1. \A r \in body[u] : r <= heard
      BY <2>1, <2>2 DEF Inv, Calm, Apart
    <3> QED
      BY <1>1, <1>6, <3>1 DEF Inv, Untaken, Typed, Rows
  <2>7. \A n \in Nodes : \A r \in pending[n] \cup hand[n] : taken'[r] = 0
    <3>1. \A n \in Nodes : body[u] \cap (pending[n] \cup hand[n]) = {}
      BY <2>1, <2>2 DEF Inv, Calm, Apart
    <3>2. \A n \in Nodes : pending[n] \cup hand[n] \subseteq Rows
      BY SpoolAssumption DEF Inv, Typed, Rows
    <3> QED
      BY <1>1, <1>6, <3>1, <3>2 DEF Inv, Untaken
  <2>8. \A g \in files : g # f => \A r \in g.rows : taken'[r] = 0
    <3>1. \A g \in files : g # f => body[u] \cap g.rows = {} /\ g.rows \subseteq Rows
      BY <2>1, <2>2 DEF Inv, Calm, Apart, Typed, Spooled
    <3> QED
      BY <1>1, <1>6, <2>3, <3>1 DEF Inv, Untaken
  <2>9. up'[u] = "remove" /\ path'[u] = f.name
    BY <1>0, <2>2 DEF Inv, Typed
  <2> QED
    BY <1>0, <2>5, <2>6, <2>7, <2>8, <2>9 DEF Untaken, node, disc
<1> QED
  BY <1>0, <1>2, <1>3, <1>4, <1>5, <1>6 DEF Inv, Brisk, Failing, clock

LEMMA RefusedKeeps == ASSUME Inv, NEW u \in Uploaders, Refused(u) PROVE Inv'
<1>0. /\ up[u] = "send" /\ EndUpload(u)
      /\ UNCHANGED <<clock, heard, feed, node, disc, past>>
  BY DEF Refused
<1>1. /\ up' \in [Uploaders -> {"none", "sleep", "read", "send", "remove"}]
      /\ path' \in [Uploaders -> Names] /\ body' \in [Uploaders -> SUBSET Rows]
      /\ up'[u] = "sleep"
      /\ \A v \in Uploaders : v # u =>
           up'[v] = up[v] /\ path'[v] = path[v] /\ body'[v] = body[v]
  BY <1>0, EndUploadMeans
<1>2. /\ taken' \in [Rows -> 0 .. 2]
      /\ \A r \in Rows : taken[r] > 0 => taken'[r] > 0
      /\ world = {} => UNCHANGED taken
  <2>1. CASE UNCHANGED taken
    BY <2>1 DEF Inv, Typed
  <2>2. CASE "answer" \in world /\ Take(body[u])
    BY <2>2, TakeMeans DEF Inv, Typed
  <2> QED
    BY <2>1, <2>2 DEF Refused
<1>3. Typed'
  BY <1>0, <1>1, <1>2 DEF Inv, Typed, clock, feed, node, disc
<1>4. Hands' /\ OneUploader'
  BY <1>0, <1>1 DEF Inv, Hands, Busy, OneUploader, node, feed
<1>5. ASSUME ~Brisk PROVE Calm'
  <2>1. Uploading'
    BY <1>0, <1>1, <1>2, <1>5 DEF Inv, Typed, Calm, Uploading, disc
  <2> QED
    BY <1>0, <1>5, <2>1, NodesAlone DEF Calm, clock, disc
<1>6. ASSUME ~Brisk, ~Failing PROVE AllKept'
  <2>1. \A r \in 1 .. heard : r \in Rows
    BY SpoolAssumption DEF Inv, Typed, Rows
  <2> QED
    BY <1>0, <1>2, <1>6, <2>1 DEF Inv, AllKept, Kept, node, disc, past
<1>7. ASSUME world = {} PROVE Untaken'
  BY <1>0, <1>1, <1>2, <1>7 DEF Inv, Untaken, node, disc
<1> QED
  BY <1>0, <1>3, <1>4, <1>5, <1>6, <1>7 DEF Inv, Brisk, Failing, clock

\* Removing a file takes nothing that WiGLE has not.
LEMMA RemovedIsTaken ==
    ASSUME Inv, ~Brisk, NEW u \in Uploaders, up[u] = "remove",
           NEW f \in files, f.name = path[u]
    PROVE  f.rows = body[u] /\ \A r \in f.rows : taken[r] > 0
  BY DEF Inv, Calm, Uploading, OwnNames

LEMMA RemoveKeeps == ASSUME Inv, NEW u \in Uploaders, Remove(u) PROVE Inv'
<1>0. /\ up[u] = "remove" /\ EndUpload(u)
      /\ UNCHANGED <<clock, heard, feed, node, parts, taken, past>>
      /\ files' \subseteq files
      /\ \A f \in files : f.name # path[u] => f \in files'
      /\ ~Failing => \A f \in files' : f.name # path[u]
  BY DEF Remove, Without
<1>1. /\ up' \in [Uploaders -> {"none", "sleep", "read", "send", "remove"}]
      /\ path' \in [Uploaders -> Names] /\ body' \in [Uploaders -> SUBSET Rows]
      /\ up'[u] = "sleep"
      /\ \A v \in Uploaders : v # u =>
           up'[v] = up[v] /\ path'[v] = path[v] /\ body'[v] = body[v]
  BY <1>0, EndUploadMeans
<1>2. Typed'
  BY <1>0, <1>1 DEF Inv, Typed, clock, feed, node
<1>3. Hands' /\ OneUploader'
  BY <1>0, <1>1 DEF Inv, Hands, Busy, OneUploader, node, feed
<1>4. ASSUME ~Brisk PROVE Calm'
  <2>1. Uploading'
    BY <1>0, <1>1, <1>4 DEF Inv, Calm, Uploading, OneUploader
  <2> QED
    BY <1>0, <1>4, <2>1, NodesAlone DEF Calm, clock
<1>5. ASSUME ~Brisk, ~Failing PROVE AllKept'
  <2>1. \A f \in files : f.name = path[u] => \A r \in f.rows : taken[r] > 0
    BY <1>0, <1>5, RemovedIsTaken
  <2> QED
    BY <1>0, <1>5, <2>1 DEF Inv, AllKept, Kept, node, past
<1>6. ASSUME world = {} PROVE Untaken'
  <2>1. \A f \in files' : f \in files /\ f.name # path[u]
    BY <1>0, <1>6, QuietIsCalm
  <2> QED
    BY <1>0, <1>1, <1>6, <2>1 DEF Inv, Untaken, OneUploader, node
<1> QED
  BY <1>0, <1>2, <1>3, <1>4, <1>5, <1>6 DEF Inv, Brisk, Failing, clock

-----------------------------------------------------------------------------
(* The world's actions.                                                    *)

LEMMA TickKeeps == ASSUME Inv, Tick PROVE Inv'
<1>0. now' = now + 1 /\ UNCHANGED <<world, heard, feed, node, disc, sender, taken, past>>
  BY DEF Tick
<1> USE DEF node, disc, sender, past, feed
<1>1. Typed'
  BY <1>0 DEF Inv, Typed
<1>2. Hands' /\ OneUploader'
  BY <1>0 DEF Inv, Hands, Busy, OneUploader
<1>3. ASSUME ~Brisk PROVE Calm'
  <2>1. /\ \A f \in files : f.name \in Names
        /\ \A p \in parts : p.name \in Names
        /\ \A n \in Nodes : name[n] \in Names
        /\ now \in Nat
    BY DEF Inv, Typed, Spooled
  <2>2. OldNames'
    BY <1>0, <1>3, <2>1 DEF Inv, Calm, OldNames, Old, Busy, Names
  <2>3. OwnNames' /\ PartsWritten'
    BY <1>0, <1>3 DEF Inv, Calm, OwnNames, PartsWritten, Busy
  <2>4. Apart' /\ Uploading'
    BY <1>0, <1>3 DEF Inv, Calm, Apart, Uploading
  <2> QED
    BY <2>2, <2>3, <2>4 DEF Calm
<1>4. ASSUME ~Brisk, ~Failing PROVE AllKept'
  BY <1>0, <1>4 DEF Inv, AllKept, Kept
<1>5. ASSUME world = {} PROVE Untaken'
  BY <1>0, <1>5 DEF Inv, Untaken
<1> QED
  BY <1>0, <1>1, <1>2, <1>3, <1>4, <1>5 DEF Inv, Brisk, Failing

LEMMA KillKeeps == ASSUME Inv, Kill PROVE Inv'
<1>0. /\ world # {} /\ account' = FALSE /\ started' = FALSE
      /\ pc' = [n \in Nodes |-> IF pc[n] = "none" THEN "none" ELSE "gone"]
      /\ given' = given \cup Memory
      /\ pending' = [n \in Nodes |-> {}] /\ hand' = [n \in Nodes |-> {}]
      /\ name' = [n \in Nodes |-> NoName]
      /\ up' = [u \in Uploaders |-> "none"] /\ body' = [u \in Uploaders |-> {}]
      /\ path' = [u \in Uploaders |-> NoName]
      /\ UNCHANGED <<world, now, heard, going, seq, stamp, parts, files>>
  BY DEF Kill, clock, disc
<1>1. taken' \in [Rows -> 0 .. 2] /\ \A r \in Rows : taken[r] > 0 => taken'[r] > 0
  <2>1. CASE UNCHANGED taken
    BY <2>1 DEF Inv, Typed
  <2>2. CASE \E u \in Uploaders : up[u] = "send" /\ Take(body[u])
    BY <2>2, TakeMeans DEF Inv, Typed
  <2> QED
    BY <2>1, <2>2 DEF Kill
<1>2. Typed'
  BY <1>0, <1>1 DEF Inv, Typed, Places, Names, NoName
<1>3. Hands' /\ OneUploader'
  BY <1>0 DEF Hands, OneUploader
<1>4. \A n \in Nodes : pc'[n] \in {"none", "gone"} /\ pending'[n] = {} /\ hand'[n] = {}
  BY <1>0
<1>5. ASSUME ~Brisk PROVE Calm'
  <2>1. OldNames' /\ OwnNames' /\ PartsWritten'
    BY <1>0, <1>4, <1>5 DEF Inv, Calm, OldNames, OwnNames, PartsWritten, Old, Busy
  <2>2. Apart'
    BY <1>0, <1>4, <1>5 DEF Inv, Calm, Apart
  <2>3. Uploading'
    BY <1>0 DEF Uploading
  <2> QED
    BY <2>1, <2>2, <2>3 DEF Calm
<1>6. ASSUME ~Brisk, ~Failing PROVE AllKept'
  <2>1. \A r \in 1 .. heard : r \in Rows
    BY SpoolAssumption DEF Inv, Typed, Rows
  <2>2. \A n \in Nodes : \A r \in pending[n] \cup hand[n] : r \in given'
    BY <1>0 DEF Memory
  <2> QED
    BY <1>0, <1>1, <1>6, <2>1, <2>2 DEF Inv, AllKept, Kept
<1> QED
  BY <1>0, <1>2, <1>3, <1>5, <1>6 DEF Inv, Brisk, Failing

-----------------------------------------------------------------------------
(* The theorems.                                                           *)

LEMMA InitHolds == ASSUME Init PROVE Inv
<1> USE DEF Init
<1>1. Typed
  <2>1. heard <= MaxRows /\ heard \in Nat /\ now \in Nat
    BY SpoolAssumption
  <2>2. NoName \in Names
    BY DEF NoName, Names
  <2>3. pending \in [Nodes -> SUBSET (1 .. heard)] /\ hand \in [Nodes -> SUBSET (1 .. heard)]
    OBVIOUS
  <2>4. taken \in [Rows -> 0 .. 2]
    OBVIOUS
  <2> QED
    BY <2>1, <2>2, <2>3, <2>4 DEF Typed, Places
<1>2. Hands /\ OneUploader
  BY DEF Hands, OneUploader
<1>3. Calm
  BY DEF Calm, OldNames, OwnNames, PartsWritten, Apart, Uploading, Busy
<1>4. AllKept
  BY DEF AllKept
<1>5. Untaken
  BY DEF Untaken
<1> QED
  BY <1>1, <1>2, <1>3, <1>4, <1>5 DEF Inv

LEMMA StepKeeps == ASSUME Inv, [Next]_vars PROVE Inv'
<1>1. ASSUME NEW n \in Nodes, Open(n) PROVE Inv'
  BY <1>1, OpenKeeps
<1>2. ASSUME NEW n \in Nodes, Hear(n) PROVE Inv'
  BY <1>2, ProcessKeeps DEF Hear
<1>3. ASSUME NEW n \in Nodes, Age(n) PROVE Inv'
  BY <1>3, ProcessKeeps DEF Age
<1>4. ASSUME NEW n \in Nodes, Drop(n) PROVE Inv'
  BY <1>4, DropKeeps
<1>5. ASSUME NEW n \in Nodes, Flush(n) PROVE Inv'
  BY <1>5, NoDirectoryKeeps, DrainKeeps, WriteKeeps, SpillKeeps, RenameKeeps DEF Flush
<1>6. ASSUME NEW n \in Nodes, NEW set \in BOOLEAN, SetAccount(n, set) PROVE Inv'
  BY <1>6, SetAccountKeeps
<1>7. ASSUME NEW u \in Uploaders, Upload(u) PROVE Inv'
  <2>1. CASE Poll(u) \/ Read(u) \/ Unreadable(u)
    BY <2>1, PollKeeps, ReadKeeps, UnreadableKeeps
  <2>2. CASE Taken(u) \/ Refused(u) \/ Remove(u)
    BY <2>2, TakenKeeps, RefusedKeeps, RemoveKeeps
  <2> QED
    BY <1>7, <2>1, <2>2 DEF Upload
<1>8. CASE UNCHANGED vars
  <2> USE <1>8 DEF vars, clock, feed, node, disc, sender, past
  <2>1. Typed' /\ Hands' /\ OneUploader'
    BY DEF Inv, Typed, Hands, Busy, OneUploader
  <2>2. ASSUME ~Brisk PROVE Calm'
    <3>1. Uploading'
      BY <2>2 DEF Inv, Calm, Uploading
    <3> QED
      BY <2>2, <3>1, NodesAlone DEF Calm
  <2>3. ASSUME ~Brisk, ~Failing PROVE AllKept'
    BY <2>3 DEF Inv, AllKept, Kept
  <2>4. ASSUME world = {} PROVE Untaken'
    BY <2>4 DEF Inv, Untaken
  <2> QED
    BY <2>1, <2>2, <2>3, <2>4 DEF Inv, Brisk, Failing
<1> QED
  BY <1>1, <1>2, <1>3, <1>4, <1>5, <1>6, <1>7, <1>8, TickKeeps, KillKeeps DEF Next

\* The inductive invariant of the spool, for any number of receivers, rows,
\* kills and uploading threads.
THEOREM SpoolInvariant == Spec => []Inv
  BY InitHolds, StepKeeps, PTL DEF Spec

\* Nothing that was collected is lost on its way to WiGLE.
THEOREM RowsAreKept == Spec => []NothingLost
<1>1. Inv => NothingLost
  <2> SUFFICES ASSUME Inv, ~Brisk, ~Failing, NEW r \in 1 .. heard
               PROVE  r \in Memory \cup Filed \cup given \/ taken[r] > 0
    BY DEF NothingLost
  <2>1. Kept(r)
    BY DEF Inv, AllKept
  <2> QED
    BY <2>1 DEF Kept, Memory, Filed, RowsIn
<1> QED
  BY <1>1, SpoolInvariant, PTL

\* Nothing is sent twice while nothing goes wrong.
THEOREM RowsAreTakenOnce == Spec => []TakenOnce
<1>1. Inv => TakenOnce
  BY DEF Inv, Untaken, TakenOnce
<1> QED
  BY <1>1, SpoolInvariant, PTL

\* Nothing leaves the disc before WiGLE has taken it.
THEOREM FilesAreOwed == Spec => FiledUntilTaken
<1>1. ASSUME Inv, Inv', [Next]_vars, ~Brisk, NEW r \in Filed
      PROVE  r \in Filed' \/ taken'[r] > 0
  <2>1. PICK f \in files : r \in f.rows
    BY DEF Filed, RowsIn
  <2>2. CASE f \in files'
    BY <2>1, <2>2 DEF Filed, RowsIn
  <2>3. CASE f \notin files'
    <3>1. ASSUME NEW n \in Nodes, Rename(n) PROVE FALSE
      <4>1. f.name # name[n]
        BY <1>1, <3>1 DEF Inv, Calm, OwnNames, Busy, Rename
      <4> QED
        BY <2>3, <3>1, <4>1 DEF Rename, Put, Without, disc
    <3>2. ASSUME NEW u \in Uploaders, Remove(u) PROVE taken'[r] > 0
      <4>1. f.name = path[u] /\ up[u] = "remove" /\ taken' = taken
        BY <2>3, <3>2 DEF Remove, Without
      <4> QED
        BY <1>1, <2>1, <4>1, RemovedIsTaken
    <3>3. \/ \E n \in Nodes : Rename(n)
          \/ \E u \in Uploaders : Remove(u)
      BY <1>1, <2>3 DEF Next, vars, disc, Open, Hear, Age, Process, Drop, Flush, NoDirectory,
         Drain, Write, Spill, SetAccount, Upload, Poll, Read, Unreadable, Taken, Refused,
         Tick, Kill
    <3> QED
      BY <3>1, <3>2, <3>3
  <2> QED
    BY <2>2, <2>3
<1>2. Inv /\ Inv' /\ [Next]_vars
        => [~Brisk => \A r \in Filed : r \in Filed' \/ taken'[r] > 0]_vars
  BY <1>1
<1> QED
  BY <1>2, SpoolInvariant, PTL DEF Spec, FiledUntilTaken

\* No row is lost, and none is taken twice while nothing goes wrong.
THEOREM RowsKeptAndTakenOnce == Spec => []RowsGoOnce
<1>1. NothingLost /\ TakenOnce => RowsGoOnce
  BY DEF RowsGoOnce
<1> QED
  BY <1>1, RowsAreKept, RowsAreTakenOnce, PTL
=============================================================================
