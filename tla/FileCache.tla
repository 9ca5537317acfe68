------------------------------ MODULE FileCache ------------------------------
(***************************************************************************)
(* The dataset cache and the workers that use it:                          *)
(*   Cache::get, refresh, fetch, refused, touch    datasets/src/cache.rs   *)
(*   load, work                                    app/src/data.rs         *)
(*   load, refresh of a two-file dataset           datasets/src/airports.rs *)
(*                                                                         *)
(* A file is the sequence of the pieces it was written in; piece <<v, i>>  *)
(* is the i-th of the publisher's version v, and a version is also its     *)
(* entity tag.  A worker's open handle is named by where the file it wrote *)
(* is now: still the .part beside the target, in the target's place        *)
(* because somebody renamed it, or gone.                                   *)
(***************************************************************************)
EXTENDS Naturals, Sequences

CONSTANTS
    Workers,      \* threads of load, at most one per dataset
    Helpers,      \* workers whose own dataset only loads this one first
    Pair,         \* files of the dataset in the world "pair"
    MaxVersion,   \* bound: versions a publisher puts out
    Size,         \* Size[v]: pieces of version v
    Refusals,     \* versions that are a complaint sent with a 200
    MaxLosses,    \* bound: kills and deletions by the user
    Worlds,       \* which of "one", "pair", "race" to explore
    Missing       \* no file, or one that cannot be read back

Versions == 1 .. MaxVersion
Files == 1 .. Pair

ASSUME CacheAssumption ==
    /\ Pair \in Nat \ {0} /\ MaxLosses \in Nat
    /\ MaxVersion \in Nat \ {0} /\ Size \in [Versions -> Nat \ {0}]
    /\ Helpers \subseteq Workers
    /\ Refusals \subseteq Versions \ {1}
    /\ Worlds \subseteq {"one", "pair", "race"}
    /\ Missing \notin Seq((Nat \ {0}) \X Nat)
    /\ Missing \notin [tag : Nat, len : Nat, fresh : BOOLEAN,
                       refused : {"no", "refused", "offline"}]

VARIABLES
    world,     \* frozen: how many files, and whether two workers may meet
    current,   \* the version each publisher has now
    file,      \* the cached file
    part,      \* the temporary beside it
    meta,      \* the metadata recorded beside it
    memory,    \* the parsed dataset, by the file it came from
    losses,    \* kills and deletions so far
    pc, stage, at, when, seen, handle, body, sent, note, then, changed, buf,
    halted,    \* history: a refresh of a held copy failed and none succeeded
    landed     \* history: a copy was recorded, and not deleted or cut off since

disk == <<file, part, meta>>
locals == <<stage, at, when, seen, handle, body, sent, note, then, changed, buf>>
past == <<halted, landed>>
vars == <<world, current, disk, memory, losses, pc, locals, past>>

Hole == <<0, 0>>
Begun(v, n) == [i \in 1 .. n |-> <<v, i>>]
Body(v) == Begun(v, Size[v])
Last == IF world = "pair" THEN Pair ELSE 1
Mine(w) == at[w]

\* Cache::meta: what is recorded, if the file beside it has that length.
Held(f) == /\ meta[f] # Missing /\ file[f] # Missing
           /\ Len(file[f]) = meta[f].len

Init ==
    /\ world \in Worlds
    /\ current = [f \in Files |-> 1]
    /\ file = [f \in Files |-> Missing]
    /\ part = [f \in Files |-> Missing]
    /\ meta = [f \in Files |-> Missing]
    /\ memory = [f \in Files |-> Missing]
    /\ losses = 0
    /\ pc = [w \in Workers |-> "idle"]
    /\ stage = [w \in Workers |-> "load"]
    /\ at = [w \in Workers |-> 1]
    /\ when = [w \in Workers |-> "IfDue"]
    /\ seen = [w \in Workers |-> 0]
    /\ handle = [w \in Workers |-> "gone"]
    /\ body = [w \in Workers |-> 1]
    /\ sent = [w \in Workers |-> 0]
    /\ note = [w \in Workers |-> Missing]
    /\ then = [w \in Workers |-> "idle"]
    /\ changed = [w \in Workers |-> FALSE]
    /\ buf = [w \in Workers |-> [f \in Files |-> Missing]]
    /\ halted = [f \in Files |-> FALSE]
    /\ landed = [f \in Files |-> FALSE]

Goto(w, l) == pc' = [pc EXCEPT ![w] = l]

(***************************************************************************)
(* The worker: load what is not in memory, then ask whether it changed,    *)
(* then read again what did.                                               *)
(***************************************************************************)
\* load: the busy flag lets one worker of a dataset in, and two datasets
\* share a file only in the world "race".
Begin(w, how) ==
    /\ pc[w] = "idle"
    /\ world = "race" \/ \A v \in Workers : pc[v] = "idle" /\ w \notin Helpers
    /\ how = "Now" => w \notin Helpers
    /\ LET loaded == memory[1] # Missing IN
       /\ loaded => w \notin Helpers
       /\ stage' = [stage EXCEPT ![w] = IF loaded THEN "check" ELSE "load"]
       /\ Goto(w, IF loaded THEN "refresh" ELSE "get")
    /\ at' = [at EXCEPT ![w] = 1]
    /\ when' = [when EXCEPT ![w] = how]
    /\ changed' = [changed EXCEPT ![w] = FALSE]
    /\ UNCHANGED <<world, current, disk, memory, losses, past,
                   seen, handle, body, sent, note, then, buf>>

\* Cache::get: the cached file, or a download of it.
Get(w) ==
    /\ pc[w] = "get"
    /\ Goto(w, IF Held(Mine(w)) THEN "read" ELSE "open")
    /\ seen' = [seen EXCEPT ![w] = IF Held(Mine(w)) THEN @ ELSE 0]
    /\ UNCHANGED <<world, current, disk, memory, losses, past,
                   stage, at, when, handle, body, sent, note, then, changed, buf>>

\* The file get() returned the path of is read, and with the last of them
\* the dataset is parsed and published.
Read(w) ==
    /\ pc[w] = "read"
    /\ LET whole == [buf[w] EXCEPT ![Mine(w)] = file[Mine(w)]] IN
       /\ buf' = [buf EXCEPT ![w] = whole]
       /\ memory' = IF Mine(w) < Last THEN memory
                    ELSE [f \in Files |-> IF f <= Last THEN whole[f] ELSE memory[f]]
    /\ IF Mine(w) < Last
       THEN at' = [at EXCEPT ![w] = @ + 1] /\ Goto(w, "get") /\ UNCHANGED stage
       ELSE /\ at' = [at EXCEPT ![w] = 1]
            /\ stage' = [stage EXCEPT ![w] = "check"]
            /\ Goto(w, IF stage[w] = "load" /\ w \notin Helpers THEN "refresh" ELSE "done")
    /\ UNCHANGED <<world, current, disk, losses, past,
                   when, seen, handle, body, sent, note, then, changed>>

\* Mutant: the tag sent is the one recorded, whether its file is there or not.
RecordedTag(f) == IF meta[f] # Missing THEN meta[f].tag ELSE 0

HeldTag(f) == IF Held(f) THEN meta[f].tag ELSE 0

\* Mutant: a person is turned away as the program is.
AutomaticAlways(w) == Held(Mine(w))

Automatic(w) == when[w] = "IfDue" /\ Held(Mine(w))

\* Cache::refresh: halted, not due, or a request with the tag of the copy.
Refresh(w) ==
    LET f == Mine(w) IN
    /\ pc[w] = "refresh"
    /\ \/ Automatic(w) /\ meta[f].refused # "no" /\ Goto(w, "idle") /\ UNCHANGED seen
       \/ Automatic(w) /\ meta[f].refused = "no" /\ meta[f].fresh
          /\ Goto(w, "next") /\ UNCHANGED seen
       \/ /\ Automatic(w) => meta[f].refused = "no" /\ ~meta[f].fresh
          /\ Goto(w, "open")
          /\ seen' = [seen EXCEPT ![w] = HeldTag(f)]
    /\ UNCHANGED <<world, current, disk, memory, losses, past,
                   stage, at, when, handle, body, sent, note, then, changed, buf>>

\* The next file of the dataset, or the end of the check: all of it is read
\* again when any of it changed.
NextFile(w) ==
    /\ pc[w] = "next"
    /\ at' = [at EXCEPT ![w] = IF @ < Last THEN @ + 1 ELSE 1]
    /\ stage' = [stage EXCEPT ![w] = IF Mine(w) = Last /\ changed[w] THEN "reload" ELSE @]
    /\ Goto(w, IF Mine(w) < Last THEN "refresh" ELSE IF changed[w] THEN "get" ELSE "done")
    /\ UNCHANGED <<world, current, disk, memory, losses, past,
                   when, seen, handle, body, sent, note, then, changed, buf>>

\* work() returned Ok: the busy flag is cleared.
Done(w) ==
    /\ pc[w] = "done"
    /\ Goto(w, "idle")
    /\ UNCHANGED <<world, current, disk, memory, losses, past, locals>>

(***************************************************************************)
(* Cache::fetch.                                                           *)
(***************************************************************************)
\* Mutant: the download is written over the copy, with no temporary.
OpenInPlace(w) ==
    /\ pc[w] = "open"
    /\ part' = [part EXCEPT ![Mine(w)] = <<>>]
    /\ file' = [file EXCEPT ![Mine(w)] = <<>>]
    /\ handle' = [handle EXCEPT ![w] = "file"]
    /\ sent' = [sent EXCEPT ![w] = 0]
    /\ Goto(w, "ask")
    /\ UNCHANGED <<world, current, meta, memory, losses, past,
                   stage, at, when, seen, body, note, then, changed, buf>>

\* File::create truncates the .part that is there, whoever is writing it.
Open(w) ==
    /\ pc[w] = "open"
    /\ part' = [part EXCEPT ![Mine(w)] = <<>>]
    /\ handle' = [handle EXCEPT ![w] = "part"]
    /\ sent' = [sent EXCEPT ![w] = 0]
    /\ Goto(w, "ask")
    /\ UNCHANGED <<world, current, file, meta, memory, losses, past,
                   stage, at, when, seen, body, note, then, changed, buf>>

\* Handles after the .part is removed or has taken the target's place.
Removed(f, by) == [w \in Workers |->
    IF w = by \/ (at[w] = f /\ handle[w] = "part") THEN "gone" ELSE handle[w]]
Renamed(f, by) == [w \in Workers |->
    IF w = by \/ at[w] # f THEN IF w = by THEN "gone" ELSE handle[w]
    ELSE CASE handle[w] = "part" -> "file" [] OTHER -> "gone"]

\* A 200, whose body is what the publisher has at that moment.
Answer(w) ==
    /\ pc[w] = "ask"
    /\ seen[w] # current[Mine(w)]
    /\ body' = [body EXCEPT ![w] = current[Mine(w)]]
    /\ Goto(w, "body")
    /\ UNCHANGED <<world, current, disk, memory, losses, past,
                   stage, at, when, seen, handle, sent, note, then, changed, buf>>

\* A 304: the .part goes and fetch returns None.
NotModified(w) ==
    /\ pc[w] = "ask"
    /\ seen[w] = current[Mine(w)]
    /\ part' = [part EXCEPT ![Mine(w)] = Missing]
    /\ handle' = Removed(Mine(w), w)
    /\ Goto(w, "clear")
    /\ UNCHANGED <<world, current, file, meta, memory, losses, past,
                   stage, at, when, seen, body, sent, note, then, changed, buf>>

\* Mutant: what a person's own try met is not noted.
NewsToSomebody(w, why) == when[w] = "IfDue" /\ meta[Mine(w)].refused # why

News(w, why) == meta[Mine(w)].refused # why

\* refused(Some): the error is noted beside a held copy, unless it is the
\* one already there.  get() only returns it.
Refused(w, why) ==
    LET f == Mine(w)
        noting == stage[w] = "check" /\ Held(f) IN
    /\ halted' = [halted EXCEPT ![f] = @ \/ noting]
    /\ IF noting /\ News(w, why)
       THEN /\ note' = [note EXCEPT ![w] = [meta[f] EXCEPT !.refused = why]]
            /\ then' = [then EXCEPT ![w] = "idle"]
            /\ Goto(w, "trunc")
       ELSE Goto(w, "idle") /\ UNCHANGED <<note, then>>

\* The request is refused or never answered, or the body breaks off.
Fail(w, why) ==
    /\ \/ pc[w] = "ask"
       \/ pc[w] = "body" /\ sent[w] < Size[body[w]] /\ why = "offline"
    /\ part' = [part EXCEPT ![Mine(w)] = Missing]
    /\ handle' = Removed(Mine(w), w)
    /\ Refused(w, why)
    /\ UNCHANGED <<world, current, file, meta, memory, losses, landed,
                   stage, at, when, seen, body, sent, changed, buf>>

\* The next piece goes to this handle's own offset in the file it is open on.
Put(s, i, c) == [k \in 1 .. (IF i > Len(s) THEN i ELSE Len(s)) |->
                    IF k = i THEN c ELSE IF k <= Len(s) THEN s[k] ELSE Hole]

Receive(w) ==
    LET f == Mine(w)
        i == sent[w] + 1
        c == <<body[w], i>> IN
    /\ pc[w] = "body" /\ sent[w] < Size[body[w]]
    /\ sent' = [sent EXCEPT ![w] = i]
    /\ part' = IF handle[w] = "part" THEN [part EXCEPT ![f] = Put(@, i, c)] ELSE part
    /\ file' = IF handle[w] = "file" THEN [file EXCEPT ![f] = Put(@, i, c)] ELSE file
    /\ UNCHANGED <<world, current, meta, memory, losses, past, pc,
                   stage, at, when, seen, handle, body, note, then, changed, buf>>

\* Mutant: a body that breaks off is taken for one that ended.
BodyBreaksOff(w) == sent[w] <= Size[body[w]]

BodyEnds(w) == sent[w] = Size[body[w]]

\* The length is the file's; the head that is checked is read by name.
Length(w) == CASE handle[w] = "part" -> Len(part[Mine(w)])
               [] handle[w] = "file" -> Len(file[Mine(w)])
               [] OTHER -> sent[w]

Check(w) ==
    LET f == Mine(w) IN
    /\ pc[w] = "body" /\ BodyEnds(w)
    /\ IF part[f] # Missing /\ (Len(part[f]) > 0 => part[f][1][1] \notin Refusals)
       THEN /\ note' = [note EXCEPT ![w] = [tag |-> body[w], len |-> Length(w),
                                            fresh |-> TRUE, refused |-> "no"]]
            /\ Goto(w, "rename")
            /\ UNCHANGED <<part, handle, halted, then>>
       ELSE /\ part' = [part EXCEPT ![f] = Missing]
            /\ handle' = Removed(f, w)
            /\ Refused(w, IF part[f] = Missing THEN "offline" ELSE "refused")
    /\ UNCHANGED <<world, current, file, meta, memory, losses, landed,
                   stage, at, when, seen, body, sent, changed, buf>>

\* The .part takes the target's place, whoever wrote what is in it.
Rename(w) ==
    LET f == Mine(w) IN
    /\ pc[w] = "rename"
    /\ IF part[f] = Missing
       THEN Refused(w, "offline") /\ UNCHANGED <<file, part, handle, changed>>
       ELSE /\ file' = [file EXCEPT ![f] = part[f]]
            /\ part' = [part EXCEPT ![f] = Missing]
            /\ handle' = Renamed(f, w)
            /\ changed' = [changed EXCEPT ![w] = @ \/ stage[w] = "check"]
            /\ then' = [then EXCEPT ![w] = IF stage[w] = "check" THEN "next" ELSE "read"]
            /\ Goto(w, "trunc")
            /\ UNCHANGED <<note, halted>>
    /\ UNCHANGED <<world, current, meta, memory, losses, landed,
                   stage, at, when, seen, body, sent, buf>>

\* Cache::record: the metadata is truncated and then written.
Truncate(w) ==
    /\ pc[w] = "trunc"
    /\ meta' = [meta EXCEPT ![Mine(w)] = Missing]
    /\ Goto(w, "save")
    /\ UNCHANGED <<world, current, file, part, memory, losses, past, locals>>

Save(w) ==
    /\ pc[w] = "save"
    /\ meta' = [meta EXCEPT ![Mine(w)] = note[w]]
    /\ halted' = [halted EXCEPT ![Mine(w)] = @ /\ note[w].refused # "no"]
    /\ landed' = [landed EXCEPT ![Mine(w)] = TRUE]
    /\ Goto(w, then[w])
    /\ UNCHANGED <<world, current, file, part, memory, losses, locals>>

\* A copy found current loses the note of a refusal, and then its age.
Clear(w) ==
    LET f == Mine(w)
        noted == Held(f) /\ meta[f].refused # "no" IN
    /\ pc[w] = "clear"
    /\ note' = [note EXCEPT ![w] = IF noted THEN [meta[f] EXCEPT !.refused = "no"] ELSE @]
    /\ then' = [then EXCEPT ![w] = "touch"]
    /\ Goto(w, IF noted THEN "trunc" ELSE "touch")
    /\ UNCHANGED <<world, current, disk, memory, losses, past,
                   stage, at, when, seen, handle, body, sent, changed, buf>>

Touch(w) ==
    LET f == Mine(w) IN
    /\ pc[w] = "touch"
    /\ note' = [note EXCEPT ![w] = IF Held(f) THEN [meta[f] EXCEPT !.fresh = TRUE] ELSE @]
    /\ then' = [then EXCEPT ![w] = "next"]
    /\ Goto(w, IF Held(f) THEN "trunc" ELSE "next")
    /\ UNCHANGED <<world, current, disk, memory, losses, past,
                   stage, at, when, seen, handle, body, sent, changed, buf>>

(***************************************************************************)
(* What happens around them.                                               *)
(***************************************************************************)
Publish(f) ==
    /\ f <= Last
    /\ current[f] + 1 \in Versions
    /\ current' = [current EXCEPT ![f] = @ + 1]
    /\ UNCHANGED <<world, disk, memory, losses, pc, locals, past>>

\* max_age passes since the last check.
Age(f) ==
    /\ meta[f] # Missing /\ meta[f].fresh
    /\ meta' = [meta EXCEPT ![f].fresh = FALSE]
    /\ UNCHANGED <<world, current, file, part, memory, losses, pc, locals, past>>

\* The program is killed: what is on disc stays.
Kill ==
    /\ world # "race" /\ losses < MaxLosses
    /\ losses' = losses + 1
    /\ pc' = [w \in Workers |-> "idle"]
    /\ memory' = [f \in Files |-> Missing]
    /\ handle' = [w \in Workers |-> "gone"]
    /\ halted' = [f \in Files |-> halted[f] /\ Held(f) /\ meta[f].refused # "no"]
    /\ landed' = [f \in Files |-> landed[f] /\ Held(f)]
    /\ UNCHANGED <<world, current, disk, stage, at, when, seen, body, sent, note,
                   then, changed, buf>>

\* The user empties the cache of a file: "both can be deleted".
Delete(f) ==
    /\ world # "race" /\ losses < MaxLosses
    /\ \A w \in Workers : pc[w] = "idle"
    /\ file[f] # Missing
    /\ losses' = losses + 1
    /\ file' = [file EXCEPT ![f] = Missing]
    /\ halted' = [halted EXCEPT ![f] = FALSE]
    /\ landed' = [landed EXCEPT ![f] = FALSE]
    /\ UNCHANGED <<world, current, part, meta, memory, pc, locals>>

Step(w) ==
    \/ Get(w) \/ Read(w) \/ Refresh(w) \/ NextFile(w) \/ Done(w)
    \/ Open(w) \/ Answer(w) \/ NotModified(w) \/ Receive(w)
    \/ Check(w) \/ Rename(w) \/ Truncate(w) \/ Save(w) \/ Clear(w) \/ Touch(w)

Refuse(w) == Fail(w, "refused")
Lose(w) == Fail(w, "offline")

Next ==
    \/ \E w \in Workers : Step(w) \/ Refuse(w) \/ Lose(w)
    \/ \E w \in Workers, how \in {"IfDue", "Now"} : Begin(w, how)
    \/ \E f \in Files : Publish(f) \/ Age(f) \/ Delete(f)
    \/ Kill

\* A worker's thread goes on, and a request ends within its timeout.
Fairness == \A w \in Workers : WF_vars(Step(w))

Spec == Init /\ [][Next]_vars /\ Fairness
(***************************************************************************)
(* Properties.                                                             *)
(***************************************************************************)
\* What the cache serves is one version of the publisher's, whole, and never
\* a complaint answered with a 200: whatever was killed, cut off or refused,
\* as long as one worker writes the file.
CopyIsWhole == \A f \in Files : Held(f) =>
    \E v \in Versions \ Refusals : file[f] = Body(v)
WholeIsServed == world # "race" => CopyIsWhole

\* A halted or failed dataset is stale, not empty: a copy that landed is
\* served at every moment but those of the record being rewritten.
StaysHeld == world # "race" => \A f \in Files : landed[f] =>
    Held(f) \/ \E w \in Workers : at[w] = f /\ pc[w] \in {"trunc", "save"}

\* A copy that landed stays, and what is served is whole: a download writes
\* beside the copy and is renamed over it only once it is complete and checked
\* (Cache::fetch), and everything that can go wrong before leaves the copy alone.
CopyStays == WholeIsServed /\ StaysHeld

\* A check that went to the publisher and came back well ends with the copy
\* held whole and the tag beside it its own, even after a kill between the
\* rename and the record left new bytes under an old tag.
CheckedIsTrue == [][\A w \in Workers :
    world # "race" /\ pc[w] \in {"save", "touch"} /\ pc'[w] = "next" =>
        Held(at[w])' /\ file'[at[w]] = Body(meta'[at[w]].tag)]_vars

\* After a failed refresh of a held copy nobody asks that publisher again on
\* the program's own account until a refresh a person asked for succeeds.
HaltedIsSilent == [][\A w \in Workers :
    world # "race" /\ when[w] = "IfDue" /\ pc'[w] = "open" /\ pc[w] = "refresh" =>
        ~halted[at[w]]]_vars

\* The refresh button "reloads what changed": a refresh that ends well leaves
\* in memory what is on disc.
RefreshReloads == \A w \in Workers : world # "race" /\ pc[w] = "done" =>
    \A f \in 1 .. Last : memory[f] = file[f]

\* While a person goes on pressing refresh and the publisher answers, the
\* copy becomes the current version and stays so: nothing a kill, a refusal or
\* a deletion left behind keeps an old copy, or none, for ever.
Trouble == Kill \/ \E w \in Workers : Refuse(w) \/ Lose(w)
Pressed == \E w \in Workers : Begin(w, "Now")
Current == \A f \in 1 .. Last : current[f] \notin Refusals =>
    file[f] = Body(current[f]) /\ (Held(f) \/ meta[f] = Missing)
BecomesCurrent == world = "one" /\ []<><<Pressed>>_vars /\ <>[][~Trouble]_vars => <>[]Current
=============================================================================
