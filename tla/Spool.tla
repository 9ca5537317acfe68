-------------------------------- MODULE Spool --------------------------------
(***************************************************************************)
(* The wardriving feed to wigle.net (nodes/src/wigle_nodes.rs): a node per *)
(* receiver collects rows and spools them to files, and one thread for the *)
(* process uploads the files, oldest first.                                *)
(*                                                                         *)
(* A row is its number in the order they were heard.  A file is a name and *)
(* a set of rows; a name is the second, the node's sequence number and the *)
(* row count it is formatted from, and names are ordered as the formatted  *)
(* ones are.  Node n + 1 is the node of the receiver started after node    *)
(* n's, whose thread may have been abandoned and still be running.         *)
(***************************************************************************)
EXTENDS Naturals, FiniteSets

CONSTANTS
    MaxNodes,     \* bound: receivers started
    MaxRows,      \* bound: rows heard
    RowsPerFile,  \* ROWS_PER_FILE
    MaxKills,     \* bound: times the process dies
    Uploaders,    \* threads that may run Uploader::run
    Worlds        \* sets of what may go wrong: "brisk", "disc", "kill", "answer"

Nodes == 1 .. MaxNodes
Rows == 1 .. MaxRows

ASSUME SpoolAssumption ==
    /\ MaxNodes \in Nat /\ MaxRows \in Nat /\ RowsPerFile \in Nat /\ MaxKills \in Nat
    /\ Worlds \subseteq SUBSET {"brisk", "disc", "kill", "answer"}

VARIABLES
    world,    \* frozen: what may go wrong
    now,      \* now_s()
    heard,    \* how many rows were collected so far
    account,  \* Uploader.account is set
    started,  \* Uploader.started
    pc,       \* what each node is doing
    going,    \* it is being dropped
    pending,  \* WigleNode.pending
    seq,      \* WigleNode.seq
    name,     \* the name flush formatted
    hand,     \* the rows flush drained
    stamp,    \* history: the second of each node's last flush
    parts,    \* the .part files in the spool
    files,    \* the .csv files in the spool
    up,       \* what each uploader is doing
    path,     \* the file it is about
    body,     \* the rows it read from that file
    taken,    \* how often WiGLE took each row: 0, 1, or 2 for more than once
    given,    \* history: rows cleared for want of an account, or killed in memory
    kills     \* times the process died

clock == <<world, now>>
feed == <<account, started>>
node == <<pc, going, pending, seq, name, hand, stamp>>
disc == <<parts, files>>
sender == <<up, path, body>>
past == <<given, kills>>
vars == <<clock, heard, feed, node, disc, sender, taken, past>>

\* Two receivers may flush within one second.
Brisk == "brisk" \in world
\* The disc may be full or unreadable.
Failing == "disc" \in world

RowsIn(spool) == UNION {f.rows : f \in spool}
Filed == RowsIn(files)
Memory == UNION {pending[n] \cup hand[n] : n \in Nodes}

Earlier(x, y) ==
    \/ x.at < y.at
    \/ x.at = y.at /\ x.seq < y.seq
    \/ x.at = y.at /\ x.seq = y.seq /\ x.count <= y.count

\* A file written or renamed over one of the same name replaces it.
Without(spool, x) == {f \in spool : f.name # x}
Put(spool, x, rows) == Without(spool, x) \cup {[name |-> x, rows |-> rows]}

NoName == [at |-> 0, seq |-> 0, count |-> 0]

Init ==
    /\ world \in Worlds /\ now = 1 /\ heard = 0
    /\ account = FALSE /\ started = FALSE
    /\ pc = [n \in Nodes |-> "none"] /\ going = [n \in Nodes |-> FALSE]
    /\ pending = [n \in Nodes |-> {}] /\ hand = [n \in Nodes |-> {}]
    /\ seq = [n \in Nodes |-> 0] /\ stamp = [n \in Nodes |-> 0]
    /\ name = [n \in Nodes |-> NoName]
    /\ parts = {} /\ files = {}
    /\ up = [u \in Uploaders |-> "none"] /\ body = [u \in Uploaders |-> {}]
    /\ path = [u \in Uploaders |-> NoName]
    /\ taken = [r \in Rows |-> 0]
    /\ given = {} /\ kills = 0

-----------------------------------------------------------------------------
(* The node.                                                               *)

\* Mutant: every node that asks for the uploader starts a thread of its own.
StartedAfresh == FALSE

AlreadyStarted == started

\* Uploader::start: the first to ask in this process starts the thread.
StartUploader ==
    /\ started' = TRUE
    /\ \/ AlreadyStarted /\ UNCHANGED up
       \/ ~AlreadyStarted /\ \E u \in Uploaders :
             up[u] = "none" /\ up' = [up EXCEPT ![u] = "sleep"]

\* A receiver is built and its node points at the one uploader.  The plan it
\* is built from has no account yet, which takes away the uploader's.
Open(n) ==
    /\ pc[n] = "none" /\ \A m \in 1 .. n - 1 : pc[m] # "none"
    /\ pc' = [pc EXCEPT ![n] = "live"]
    /\ StartUploader
    /\ account' = FALSE
    /\ UNCHANGED <<clock, heard, going, pending, seq, name, hand, stamp, disc, path,
                   body, taken, past>>

\* The settings arrive, or change.  Without an account what was collected is
\* cleared.
SetAccount(n, set) ==
    /\ pc[n] = "live"
    /\ account' = set
    /\ pending' = IF set THEN pending ELSE [pending EXCEPT ![n] = {}]
    /\ given' = IF set THEN given ELSE given \cup pending[n]
    /\ UNCHANGED <<clock, heard, started, pc, going, seq, name, hand, stamp, disc,
                   sender, taken, kills>>

Full(rows) == Cardinality(rows) >= RowsPerFile

\* Mutant: nothing but a full file is ever closed.
DueWhenFull(rows, aged) == Full(rows)

Due(rows, aged) == rows # {} /\ (Full(rows) \/ aged)

\* One block of packets: at most one sighting worth a row, and a flush when
\* there are enough rows or they are MAX_AGE old.
Process(n, new, aged) ==
    /\ pc[n] = "live" /\ account
    /\ new # {} \/ aged
    /\ heard' = heard + Cardinality(new)
    /\ pending' = [pending EXCEPT ![n] = @ \cup new]
    /\ pc' = [pc EXCEPT ![n] = IF Due(pending'[n], aged) THEN "make" ELSE "live"]
    /\ UNCHANGED <<clock, feed, going, seq, name, hand, stamp, disc, sender, taken, past>>

Hear(n) == \E aged \in BOOLEAN : heard < MaxRows /\ Process(n, {heard + 1}, aged)
Age(n) == pending[n] # {} /\ Process(n, {}, TRUE)

\* Mutant: a receiver that stops takes its rows with it.
DropForgets(n) ==
    /\ pc[n] = "live"
    /\ pc' = [pc EXCEPT ![n] = "gone"]
    /\ pending' = [pending EXCEPT ![n] = {}]
    /\ UNCHANGED <<clock, heard, feed, going, seq, name, hand, stamp, disc, sender,
                   taken, past>>

\* The receiver is stopped: Drop flushes what is pending.
Drop(n) ==
    /\ pc[n] = "live"
    /\ going' = [going EXCEPT ![n] = TRUE]
    /\ pc' = [pc EXCEPT ![n] = IF pending[n] = {} THEN "gone" ELSE "make"]
    /\ UNCHANGED <<clock, heard, feed, pending, seq, name, hand, stamp, disc, sender,
                   taken, past>>

\* Where flush returns to.
Back(n) == [pc EXCEPT ![n] = IF going[n] THEN "gone" ELSE "live"]

EndFlush(n) ==
    /\ pc' = Back(n)
    /\ hand' = [hand EXCEPT ![n] = {}] /\ name' = [name EXCEPT ![n] = NoName]

\* create_dir_all fails: the rows are kept for the next flush, if there is one.
NoDirectory(n) ==
    /\ pc[n] = "make" /\ Failing
    /\ pc' = Back(n)
    /\ pending' = IF going[n] THEN [pending EXCEPT ![n] = {}] ELSE pending
    /\ UNCHANGED <<clock, heard, feed, going, seq, name, hand, stamp, disc, sender,
                   taken, past>>

\* Mutant: the sequence number is not counted up.
SeqStands(n) == seq[n]

NextSeq(n) == seq[n] + 1

\* The name is formatted and the rows are drained.  But for a brisk world no
\* other node has flushed in this second.
Drain(n) ==
    /\ pc[n] = "make"
    /\ Brisk \/ \A m \in Nodes \ {n} : stamp[m] # now
    /\ seq' = [seq EXCEPT ![n] = NextSeq(n)]
    /\ name' = [name EXCEPT ![n] =
                  [at |-> now, seq |-> seq'[n], count |-> Cardinality(pending[n])]]
    /\ hand' = [hand EXCEPT ![n] = pending[n]]
    /\ pending' = [pending EXCEPT ![n] = {}]
    /\ stamp' = [stamp EXCEPT ![n] = now]
    /\ pc' = [pc EXCEPT ![n] = "write"]
    /\ UNCHANGED <<clock, heard, feed, going, disc, sender, taken, past>>

\* The part file is written whole.
Write(n) ==
    /\ pc[n] = "write"
    /\ parts' = Put(parts, name[n], hand[n])
    /\ pc' = [pc EXCEPT ![n] = "rename"]
    /\ UNCHANGED <<clock, heard, feed, going, pending, seq, name, hand, stamp, files,
                   sender, taken, past>>

\* Writing or renaming fails, which flush ignores: the rows are gone.
Spill(n) ==
    /\ pc[n] \in {"write", "rename"} /\ Failing
    /\ EndFlush(n)
    /\ UNCHANGED <<disc, clock, heard, feed, going, pending, seq, stamp, sender, taken,
                   past>>

\* The part is moved into place, if another node has not moved it already.
Rename(n) ==
    /\ pc[n] = "rename"
    /\ \/ \E p \in parts :
            /\ p.name = name[n]
            /\ files' = Put(files, name[n], p.rows)
            /\ parts' = Without(parts, name[n])
       \/ /\ \A p \in parts : p.name # name[n]
          /\ UNCHANGED disc
    /\ EndFlush(n)
    /\ UNCHANGED <<clock, heard, feed, going, pending, seq, stamp, sender, taken, past>>

-----------------------------------------------------------------------------
(* The uploader.                                                           *)

More(times) == IF times = 0 THEN 1 ELSE 2
Take(rows) == taken' = [r \in Rows |-> IF r \in rows THEN More(taken[r]) ELSE taken[r]]

EndUpload(u) ==
    /\ up' = [up EXCEPT ![u] = "sleep"]
    /\ path' = [path EXCEPT ![u] = NoName] /\ body' = [body EXCEPT ![u] = {}]

\* After POLL, with an account: the file whose name sorts first.
Poll(u) ==
    /\ up[u] = "sleep" /\ account
    /\ \E f \in files :
         /\ \A g \in files : Earlier(f.name, g.name)
         /\ path' = [path EXCEPT ![u] = f.name]
    /\ up' = [up EXCEPT ![u] = "read"]
    /\ UNCHANGED <<clock, heard, feed, node, disc, body, taken, past>>

\* Mutant: the file is claimed by removing it before it is sent.
ReadAndClaim(u) ==
    /\ up[u] = "read"
    /\ \E f \in files : f.name = path[u] /\ body' = [body EXCEPT ![u] = f.rows]
    /\ files' = Without(files, path[u])
    /\ up' = [up EXCEPT ![u] = "send"]
    /\ UNCHANGED <<clock, heard, feed, node, parts, path, taken, past>>

Read(u) ==
    /\ up[u] = "read"
    /\ \E f \in files : f.name = path[u] /\ body' = [body EXCEPT ![u] = f.rows]
    /\ up' = [up EXCEPT ![u] = "send"]
    /\ UNCHANGED <<clock, heard, feed, node, disc, path, taken, past>>

\* The file cannot be read: said, and tried again.
Unreadable(u) ==
    /\ up[u] = "read"
    /\ Failing \/ \A f \in files : f.name # path[u]
    /\ EndUpload(u)
    /\ UNCHANGED <<clock, heard, feed, node, disc, taken, past>>

\* WiGLE takes the file and says so.
Taken(u) ==
    /\ up[u] = "send"
    /\ Take(body[u])
    /\ up' = [up EXCEPT ![u] = "remove"]
    /\ UNCHANGED <<clock, heard, feed, node, disc, path, body, past>>

\* WiGLE cannot be reached or refuses; or takes it and the answer is lost.
\* The same file is tried again after the backoff.
Refused(u) ==
    /\ up[u] = "send"
    /\ \/ UNCHANGED taken
       \/ "answer" \in world /\ Take(body[u])
    /\ EndUpload(u)
    /\ UNCHANGED <<clock, heard, feed, node, disc, past>>

\* The file is removed; an error is ignored.
Remove(u) ==
    /\ up[u] = "remove"
    /\ \/ files' = Without(files, path[u])
       \/ Failing /\ UNCHANGED files
    /\ EndUpload(u)
    /\ UNCHANGED <<clock, heard, feed, node, parts, taken, past>>

-----------------------------------------------------------------------------
(* The world.                                                              *)

\* Seconds pass; one without a flush in it is not told from the next.
Tick ==
    /\ \E n \in Nodes : stamp[n] = now
    /\ now' = now + 1
    /\ UNCHANGED <<world, heard, feed, node, disc, sender, taken, past>>

\* The process is killed, or the power goes: what is in memory is gone, and
\* what was being sent may have arrived.
Kill ==
    /\ "kill" \in world /\ kills < MaxKills
    /\ kills' = kills + 1
    /\ account' = FALSE /\ started' = FALSE
    /\ pc' = [n \in Nodes |-> IF pc[n] = "none" THEN "none" ELSE "gone"]
    /\ given' = given \cup Memory
    /\ pending' = [n \in Nodes |-> {}] /\ hand' = [n \in Nodes |-> {}]
    /\ name' = [n \in Nodes |-> NoName]
    /\ up' = [u \in Uploaders |-> "none"] /\ body' = [u \in Uploaders |-> {}]
    /\ path' = [u \in Uploaders |-> NoName]
    /\ \/ UNCHANGED taken
       \/ \E u \in Uploaders : up[u] = "send" /\ Take(body[u])
    /\ UNCHANGED <<clock, heard, going, seq, stamp, disc>>

Flush(n) == NoDirectory(n) \/ Drain(n) \/ Write(n) \/ Spill(n) \/ Rename(n)
Upload(u) == Poll(u) \/ Read(u) \/ Unreadable(u) \/ Taken(u) \/ Refused(u) \/ Remove(u)

Next ==
    \/ \E n \in Nodes :
         \/ Open(n) \/ Hear(n) \/ Age(n) \/ Drop(n) \/ Flush(n)
         \/ \E set \in BOOLEAN : SetAccount(n, set)
    \/ \E u \in Uploaders : Upload(u)
    \/ Tick \/ Kill

\* A thread that can run does, a receiver that runs delivers blocks, time
\* passes, and WiGLE does not refuse one file for ever.
Fairness ==
    /\ \A n \in Nodes : WF_vars(Age(n)) /\ WF_vars(Flush(n))
    /\ \A u \in Uploaders : WF_vars(Upload(u)) /\ SF_vars(Taken(u))
    /\ WF_vars(Tick)

Spec == Init /\ [][Next]_vars /\ Fairness

-----------------------------------------------------------------------------
(* Properties.                                                             *)

\* Unless the disc fails or two receivers flush in one second, a row that was
\* collected is in a node's memory, in a spool file, or taken by WiGLE.  It is
\* otherwise only gone when the account was taken away, or when the process was
\* killed while a node still held it: between the kill and the file it was to
\* go to nothing keeps it (flush, Drop and the uploader's remove_file; what a
\* kill costs is KillCostsNothing's question).
NothingLost ==
    ~Brisk /\ ~Failing =>
        \A r \in 1 .. heard : r \in Memory \cup Filed \cup given \/ taken[r] > 0

\* A row that is in a spool file stays in one until WiGLE has taken it,
\* whatever is refused, killed or failing meanwhile (oldest-first upload and
\* "deleting each only once WiGLE has said it took it").
FiledUntilTaken ==
    [][~Brisk => \A r \in Filed : r \in Filed' \/ taken'[r] > 0]_vars

\* While nothing goes wrong, no row is sent twice, however many receivers come
\* and go during an upload (one uploader for the process).
TakenOnce == world = {} => \A r \in Rows : taken[r] < 2

\* A row goes to WiGLE once: it is not lost on the way (nodes and files share
\* names only within a second), nor sent by two threads at once.
RowsGoOnce == NothingLost /\ TakenOnce

\* Once the account stays, every row that was collected, and neither cleared
\* without an account nor killed in a node's memory, is taken in the end:
\* through kills, refusals and lost answers.
Delivered ==
    ~Brisk /\ ~Failing /\ <>[]account =>
        \A r \in Rows : r <= heard ~> (r \in given \/ taken[r] > 0)

\* "Nothing is held in memory that a power cut would cost": every row a kill
\* meets is in a file or taken.
KillCostsNothing ==
    [][kills' # kills =>
         \A r \in 1 .. heard : r \in given \cup Filed' \/ taken'[r] > 0]_vars

\* "deleting each only once WiGLE has said it took it", in every world.
DeletedWhenTaken ==
    [][\A r \in Filed : r \in Filed' \/ taken'[r] > 0]_vars
=============================================================================
