--------------------------- MODULE FileCacheProofs ---------------------------
(***************************************************************************)
(* What the dataset cache keeps to when one worker at a time writes a      *)
(* file, for any publishers, sizes of versions, datasets and workers.      *)
(***************************************************************************)
EXTENDS FileCache, TLAPS

Good == Versions \ Refusals
Records == [tag : Versions, len : Nat, fresh : BOOLEAN,
            refused : {"no", "refused", "offline"}]
Places == {"idle", "get", "read", "refresh", "next", "done", "open", "ask", "body",
           "rename", "trunc", "save", "clear", "touch"}

\* The version a file or a temporary begins with.
Version(f) == file[f][1][1]

Typed ==
    /\ current \in [Files -> Versions]
    /\ file \in [Files -> {Missing} \cup {Body(v) : v \in Good}]
    /\ DOMAIN part = Files
    /\ meta \in [Files -> {Missing} \cup Records]
    /\ pc \in [Workers -> Places]
    /\ at \in [Workers -> Files]
    /\ body \in [Workers -> Versions]
    /\ sent \in [Workers -> Nat]
    /\ note \in [Workers -> {Missing} \cup Records]
    /\ then \in [Workers -> Places]
    /\ DOMAIN seen = Workers /\ DOMAIN handle = Workers
    /\ halted \in [Files -> BOOLEAN]
    /\ landed \in [Files -> BOOLEAN]

\* One worker at a time.
OneWriter == \A v, w \in Workers : pc[v] # "idle" /\ pc[w] # "idle" => v = w

\* No tag is newer than the file beside it, no file than the publisher's.
InOrder(f) ==
    /\ file[f] # Missing => Version(f) <= current[f]
    /\ meta[f] # Missing => meta[f].tag <= current[f]
    /\ meta[f] # Missing /\ file[f] # Missing => meta[f].tag <= Version(f)

\* The tag asked with is that of a copy that is held.
AsksRightly(w) == pc[w] \in {"open", "ask"} /\ seen[w] # 0 =>
    Held(at[w]) /\ seen[w] = meta[at[w]].tag

\* What has arrived is the beginning of one version.
Arriving(w) == pc[w] \in {"ask", "body", "rename"} =>
    /\ pc[w] # "rename" => handle[w] = "part" /\ sent[w] <= Size[body[w]]
    /\ pc[w] = "ask" => sent[w] = 0
    /\ part[at[w]] # Missing
    /\ part[at[w]] = Begun(body[w], IF pc[w] = "rename" THEN Size[body[w]] ELSE sent[w])
    /\ pc[w] # "ask" => /\ body[w] <= current[at[w]]
                        /\ meta[at[w]] # Missing => meta[at[w]].tag <= body[w]
    /\ pc[w] = "rename" => /\ body[w] \in Good
                           /\ note[w] \in Records
                           /\ note[w].tag = body[w]
                           /\ note[w].len = Size[body[w]]
                           /\ note[w].refused = "no"

\* What is about to be recorded belongs to the file it will stand beside.
Recording(w) == pc[w] \in {"trunc", "save"} =>
    /\ file[at[w]] # Missing
    /\ note[w] \in Records
    /\ note[w].len = Len(file[at[w]])
    /\ note[w].tag <= Version(at[w])
    /\ then[w] \in {"idle", "next", "read", "touch"}
    /\ then[w] \in {"next", "touch"} => file[at[w]] = Body(note[w].tag)
    /\ then[w] = "touch" => note[w].refused = "no"
    /\ then[w] # "idle" => note[w].refused = "no"

\* A copy found current is held, and its tag is its own.
Confirmed(w) == pc[w] \in {"clear", "touch"} =>
    /\ Held(at[w]) /\ file[at[w]] = Body(meta[at[w]].tag)
    /\ pc[w] = "touch" => meta[at[w]].refused = "no"

\* What landed is held, and what is halted says so, but while it is written.
Busy(f) == \E w \in Workers : at[w] = f /\ pc[w] \in {"trunc", "save"}
Kept(f) == landed[f] => Held(f) \/ Busy(f)
Silenced(f) == halted[f] => (Held(f) /\ meta[f].refused # "no") \/ Busy(f)

PerFile == \A f \in Files : InOrder(f) /\ Kept(f) /\ Silenced(f)
PerWorker(w) == AsksRightly(w) /\ Arriving(w) /\ Recording(w) /\ Confirmed(w)

Alone == Typed /\ OneWriter /\ PerFile /\ \A w \in Workers : PerWorker(w)

Inv == world \in Worlds /\ (world # "race" => Alone)

-----------------------------------------------------------------------------
(* Versions and their pieces. *)

LEMMA SizeIsNat == \A v \in Versions : Size[v] \in Nat \ {0} /\ v \in Nat \ {0}
  BY CacheAssumption DEF Versions

LEMMA BegunIsASequence ==
  ASSUME NEW v \in Versions, NEW n \in Nat
  PROVE  /\ Begun(v, n) \in Seq((Nat \ {0}) \X Nat)
         /\ Len(Begun(v, n)) = n
         /\ Begun(v, n) # Missing
         /\ n > 0 => Begun(v, n)[1][1] = v
  <1>1. v \in Nat \ {0}
    BY SizeIsNat
  <1>2. Begun(v, n) \in Seq((Nat \ {0}) \X Nat) /\ Len(Begun(v, n)) = n
    BY <1>1 DEF Begun
  <1>3. Begun(v, n) # Missing
    BY <1>2, CacheAssumption
  <1>4. n > 0 => Begun(v, n)[1][1] = v
    BY <1>1 DEF Begun
  <1> QED BY <1>2, <1>3, <1>4

LEMMA NothingHasBegun == \A v \in Versions : Begun(v, 0) = << >>
  BY DEF Begun

LEMMA PutGoesOn ==
  ASSUME NEW v \in Versions, NEW n \in Nat
  PROVE  Put(Begun(v, n), n + 1, <<v, n + 1>>) = Begun(v, n + 1)
  <1>1. Len(Begun(v, n)) = n
    BY BegunIsASequence
  <1>2. Put(Begun(v, n), n + 1, <<v, n + 1>>) =
          [k \in 1 .. (n + 1) |-> IF k = n + 1 THEN <<v, n + 1>>
                                  ELSE IF k <= n THEN Begun(v, n)[k] ELSE Hole]
    BY <1>1 DEF Put
  <1>3. \A k \in 1 .. (n + 1) : k # n + 1 => Begun(v, n)[k] = <<v, k>>
    BY DEF Begun
  <1>4. \A k \in 1 .. (n + 1) :
          (IF k = n + 1 THEN <<v, n + 1>> ELSE IF k <= n THEN Begun(v, n)[k] ELSE Hole)
          = <<v, k>>
    BY <1>3
  <1> QED BY <1>2, <1>4 DEF Begun

LEMMA BodyFacts ==
  ASSUME NEW v \in Versions
  PROVE  /\ Body(v) # Missing /\ Len(Body(v)) = Size[v]
         /\ Body(v)[1][1] = v
  <1>1. Size[v] \in Nat /\ Size[v] > 0
    BY SizeIsNat
  <1> QED BY <1>1, BegunIsASequence DEF Body

-----------------------------------------------------------------------------
(* What a step leaves alone.                                               *)

\* A worker that was not recording leaves the files as it found them.
LEMMA FilesLeftAlone ==
  ASSUME Alone, NEW w \in Workers,
         \A v \in Workers : v # w => pc[v] = "idle",
         pc[w] \notin {"trunc", "save"},
         UNCHANGED <<current, file, meta, past>>
  PROVE  PerFile'
  <1> SUFFICES ASSUME NEW f \in Files
               PROVE  InOrder(f)' /\ Kept(f)' /\ Silenced(f)'
    BY DEF PerFile
  <1>1. ~Busy(f)
    BY DEF Busy
  <1>2. InOrder(f) /\ Kept(f) /\ Silenced(f)
    BY DEF Alone, PerFile
  <1>3. InOrder(f)'
    BY <1>2 DEF InOrder, Version
  <1>4. Kept(f)'
    BY <1>1, <1>2 DEF Kept, Held, past
  <1>5. Silenced(f)'
    BY <1>1, <1>2 DEF Silenced, Held, past
  <1> QED BY <1>3, <1>4, <1>5

\* Where one worker moves and the others are idle, it is the only one to ask
\* about.
LEMMA OthersAreIdle ==
  ASSUME Alone, NEW w \in Workers, pc[w] # "idle",
         \E l \in Places : Goto(w, l), PerWorker(w)'
  PROVE  /\ \A v \in Workers : v # w => pc[v] = "idle"
         /\ OneWriter'
         /\ pc' \in [Workers -> Places]
         /\ \A v \in Workers : PerWorker(v)'
  <1>1. pc \in [Workers -> Places] /\ OneWriter
    BY DEF Alone, Typed
  <1>2. \A v \in Workers : v # w => pc[v] = "idle"
    BY <1>1 DEF OneWriter
  <1>3. \A v \in Workers : v # w => pc'[v] = "idle"
    BY <1>1, <1>2 DEF Goto
  <1>4. OneWriter'
    BY <1>3 DEF OneWriter
  <1>5. pc' \in [Workers -> Places]
    BY <1>1 DEF Goto
  <1>6. ASSUME NEW v \in Workers
        PROVE  PerWorker(v)'
    <2>1. CASE v = w
      BY <2>1
    <2>2. CASE v # w
      BY <2>2, <1>3 DEF PerWorker, AsksRightly, Arriving, Recording, Confirmed
    <2> QED BY <2>1, <2>2
  <1> QED BY <1>2, <1>4, <1>5, <1>6

-----------------------------------------------------------------------------
(* The steps that write neither the copy nor its record.                   *)

LEMMA GetKeeps ==
  ASSUME Alone, NEW w \in Workers, Get(w)
  PROVE  Alone'
  <1> USE DEF Get, Mine
  <1>1. Typed /\ PerWorker(w)
    BY DEF Alone
  <1>2. \E l \in Places : Goto(w, l)
    BY DEF Places
  <1>3. PerWorker(w)'
    BY <1>1 DEF Typed, Goto, PerWorker, AsksRightly, Arriving, Recording, Confirmed
  <1>4. pc[w] # "idle"
    OBVIOUS
  <1>5. /\ \A v \in Workers : v # w => pc[v] = "idle"
        /\ OneWriter' /\ pc' \in [Workers -> Places]
        /\ \A v \in Workers : PerWorker(v)'
    BY <1>2, <1>3, <1>4, OthersAreIdle
  <1>6. PerFile'
    BY <1>5, FilesLeftAlone DEF disk
  <1>7. Typed'
    BY <1>1, <1>5 DEF Typed, disk, past
  <1> QED BY <1>5, <1>6, <1>7 DEF Alone

LEMMA ReadKeeps ==
  ASSUME Alone, NEW w \in Workers, Read(w)
  PROVE  Alone'
  <1> USE DEF Read, Mine
  <1>1. Typed /\ PerWorker(w)
    BY DEF Alone
  <1>2. \E l \in Places : Goto(w, l)
    BY DEF Places
  <1>3. pc'[w] \in {"get", "refresh", "done"}
    BY <1>1 DEF Typed, Goto
  <1>4. PerWorker(w)'
    BY <1>3 DEF PerWorker, AsksRightly, Arriving, Recording, Confirmed
  <1>5. /\ \A v \in Workers : v # w => pc[v] = "idle"
        /\ OneWriter' /\ pc' \in [Workers -> Places]
        /\ \A v \in Workers : PerWorker(v)'
    BY <1>2, <1>4, OthersAreIdle
  <1>6. PerFile'
    BY <1>5, FilesLeftAlone DEF disk
  <1>7. at' \in [Workers -> Files]
    <2>1. 1 \in Files /\ Last \in Files
      BY CacheAssumption DEF Files, Last
    <2>2. at[w] < Last => at[w] + 1 \in Files
      BY <1>1, <2>1, CacheAssumption DEF Typed, Files
    <2> QED BY <1>1, <2>1, <2>2 DEF Typed
  <1>8. Typed'
    BY <1>1, <1>5, <1>7 DEF Typed, disk, past
  <1> QED BY <1>5, <1>6, <1>8 DEF Alone

LEMMA RefreshKeeps ==
  ASSUME Alone, NEW w \in Workers, Refresh(w)
  PROVE  Alone'
  <1> USE DEF Refresh, Mine
  <1>1. Typed /\ PerWorker(w)
    BY DEF Alone
  <1>2. \E l \in Places : Goto(w, l)
    BY DEF Places
  <1>3. /\ pc'[w] \in {"idle", "next", "open"}
        /\ pc'[w] = "open" => seen'[w] = HeldTag(at[w])
    BY <1>1 DEF Typed, Goto
  <1>4. AsksRightly(w)'
    BY <1>3 DEF AsksRightly, HeldTag, Held, disk
  <1>5. PerWorker(w)'
    BY <1>3, <1>4 DEF PerWorker, Arriving, Recording, Confirmed
  <1>6. /\ \A v \in Workers : v # w => pc[v] = "idle"
        /\ OneWriter' /\ pc' \in [Workers -> Places]
        /\ \A v \in Workers : PerWorker(v)'
    BY <1>2, <1>5, OthersAreIdle
  <1>7. PerFile'
    BY <1>6, FilesLeftAlone DEF disk
  <1>8. Typed'
    BY <1>1, <1>6 DEF Typed, disk, past
  <1> QED BY <1>6, <1>7, <1>8 DEF Alone

LEMMA NextFileKeeps ==
  ASSUME Alone, NEW w \in Workers, NextFile(w)
  PROVE  Alone'
  <1> USE DEF NextFile, Mine
  <1>1. Typed
    BY DEF Alone
  <1>2. \E l \in Places : Goto(w, l)
    BY DEF Places
  <1>3. pc'[w] \in {"get", "refresh", "done"}
    BY <1>1 DEF Typed, Goto
  <1>4. PerWorker(w)'
    BY <1>3 DEF PerWorker, AsksRightly, Arriving, Recording, Confirmed
  <1>5. /\ \A v \in Workers : v # w => pc[v] = "idle"
        /\ OneWriter' /\ pc' \in [Workers -> Places]
        /\ \A v \in Workers : PerWorker(v)'
    BY <1>2, <1>4, OthersAreIdle
  <1>6. PerFile'
    BY <1>5, FilesLeftAlone DEF disk
  <1>7. at' \in [Workers -> Files]
    <2>1. 1 \in Files /\ Last \in Files
      BY CacheAssumption DEF Files, Last
    <2>2. at[w] < Last => at[w] + 1 \in Files
      BY <1>1, <2>1, CacheAssumption DEF Typed, Files
    <2> QED BY <1>1, <2>1, <2>2 DEF Typed
  <1>8. Typed'
    BY <1>1, <1>5, <1>7 DEF Typed, disk, past
  <1> QED BY <1>5, <1>6, <1>8 DEF Alone

LEMMA DoneKeeps ==
  ASSUME Alone, NEW w \in Workers, Done(w)
  PROVE  Alone'
  <1> USE DEF Done
  <1>1. Typed
    BY DEF Alone
  <1>2. \E l \in Places : Goto(w, l)
    BY DEF Places
  <1>3. pc'[w] = "idle"
    BY <1>1 DEF Typed, Goto
  <1>4. PerWorker(w)'
    BY <1>3 DEF PerWorker, AsksRightly, Arriving, Recording, Confirmed
  <1>5. /\ \A v \in Workers : v # w => pc[v] = "idle"
        /\ OneWriter' /\ pc' \in [Workers -> Places]
        /\ \A v \in Workers : PerWorker(v)'
    BY <1>2, <1>4, OthersAreIdle
  <1>6. PerFile'
    BY <1>5, FilesLeftAlone DEF disk
  <1>7. Typed'
    BY <1>1, <1>5 DEF Typed, disk, past, locals
  <1> QED BY <1>5, <1>6, <1>7 DEF Alone

LEMMA OpenKeeps ==
  ASSUME Alone, NEW w \in Workers, Open(w)
  PROVE  Alone'
  <1> USE DEF Open, Mine
  <1>1. Typed /\ PerWorker(w)
    BY DEF Alone
  <1>2. \E l \in Places : Goto(w, l)
    BY DEF Places
  <1>3. pc'[w] = "ask" /\ handle'[w] = "part" /\ sent'[w] = 0 /\ part'[at[w]] = << >>
    BY <1>1 DEF Typed, Goto
  <1>4. AsksRightly(w)'
    BY <1>1, <1>3 DEF PerWorker, AsksRightly, Held
  <1>5. body[w] \in Versions /\ Size[body[w]] \in Nat
    BY <1>1, SizeIsNat DEF Typed
  <1>6. << >> = Begun(body[w], 0) /\ << >> # Missing
    BY <1>5, NothingHasBegun, BegunIsASequence
  <1>7. Arriving(w)'
    BY <1>3, <1>5, <1>6 DEF Arriving
  <1>8. PerWorker(w)'
    BY <1>3, <1>4, <1>7 DEF PerWorker, Recording, Confirmed
  <1>9. /\ \A v \in Workers : v # w => pc[v] = "idle"
        /\ OneWriter' /\ pc' \in [Workers -> Places]
        /\ \A v \in Workers : PerWorker(v)'
    BY <1>2, <1>8, OthersAreIdle
  <1>10. PerFile'
    BY <1>9, FilesLeftAlone
  <1>11. Typed'
    BY <1>1, <1>9 DEF Typed, past
  <1> QED BY <1>9, <1>10, <1>11 DEF Alone

LEMMA AnswerKeeps ==
  ASSUME Alone, NEW w \in Workers, Answer(w)
  PROVE  Alone'
  <1> USE DEF Answer, Mine
  <1>1. Typed /\ PerWorker(w) /\ InOrder(at[w])
    BY DEF Alone, PerFile, Typed
  <1>2. \E l \in Places : Goto(w, l)
    BY DEF Places
  <1>3. pc'[w] = "body" /\ body'[w] = current[at[w]] /\ body'[w] \in Versions
    BY <1>1 DEF Typed, Goto
  <1>4. /\ handle[w] = "part" /\ sent[w] = 0 /\ part[at[w]] # Missing
        /\ part[at[w]] = << >>
    BY <1>1, NothingHasBegun DEF PerWorker, Arriving, Typed
  <1>5. part[at[w]] = Begun(body'[w], 0) /\ Size[body'[w]] \in Nat \ {0}
    BY <1>3, <1>4, NothingHasBegun, SizeIsNat
  <1>6. current[at[w]] \in Nat
    BY <1>1, SizeIsNat DEF Typed
  <1>7. Arriving(w)'
    BY <1>1, <1>3, <1>4, <1>5, <1>6 DEF Arriving, InOrder, disk
  <1>8. PerWorker(w)'
    BY <1>3, <1>7 DEF PerWorker, AsksRightly, Recording, Confirmed
  <1>9. /\ \A v \in Workers : v # w => pc[v] = "idle"
        /\ OneWriter' /\ pc' \in [Workers -> Places]
        /\ \A v \in Workers : PerWorker(v)'
    BY <1>2, <1>8, OthersAreIdle
  <1>10. PerFile'
    BY <1>9, FilesLeftAlone DEF disk
  <1>11. Typed'
    BY <1>1, <1>3, <1>9 DEF Typed, disk, past
  <1> QED BY <1>9, <1>10, <1>11 DEF Alone

\* A tag the publisher still has is the tag of what it stands beside.
LEMMA CurrentTagIsTrue ==
  ASSUME Alone, NEW f \in Files, Held(f), meta[f].tag = current[f]
  PROVE  file[f] = Body(meta[f].tag)
  <1>1. Typed /\ InOrder(f)
    BY DEF Alone, PerFile
  <1>2. PICK v \in Good : file[f] = Body(v)
    BY <1>1 DEF Typed, Held
  <1>3. v \in Versions /\ v \in Nat /\ Version(f) = v
    BY <1>2, BodyFacts, SizeIsNat DEF Good, Version
  <1>4. current[f] \in Nat
    BY <1>1, SizeIsNat DEF Typed
  <1>5. v = meta[f].tag
    BY <1>1, <1>3, <1>4 DEF InOrder, Held
  <1> QED BY <1>2, <1>5

LEMMA NotModifiedKeeps ==
  ASSUME Alone, NEW w \in Workers, NotModified(w)
  PROVE  Alone'
  <1> USE DEF NotModified, Mine
  <1>1. Typed /\ PerWorker(w)
    BY DEF Alone
  <1>2. \E l \in Places : Goto(w, l)
    BY DEF Places
  <1>3. pc'[w] = "clear"
    BY <1>1 DEF Typed, Goto
  <1>4. at[w] \in Files /\ current[at[w]] \in Nat \ {0}
    BY <1>1, SizeIsNat DEF Typed
  <1>5. Held(at[w]) /\ meta[at[w]].tag = current[at[w]]
    BY <1>1, <1>4 DEF PerWorker, AsksRightly
  <1>6. file[at[w]] = Body(meta[at[w]].tag)
    BY <1>4, <1>5, CurrentTagIsTrue
  <1>7. Confirmed(w)'
    BY <1>3, <1>5, <1>6 DEF Confirmed, Held
  <1>8. PerWorker(w)'
    BY <1>3, <1>7 DEF PerWorker, AsksRightly, Arriving, Recording
  <1>9. /\ \A v \in Workers : v # w => pc[v] = "idle"
        /\ OneWriter' /\ pc' \in [Workers -> Places]
        /\ \A v \in Workers : PerWorker(v)'
    BY <1>2, <1>8, OthersAreIdle
  <1>10. PerFile'
    BY <1>9, FilesLeftAlone
  <1>11. Typed'
    BY <1>1, <1>9 DEF Typed, past, Removed
  <1> QED BY <1>9, <1>10, <1>11 DEF Alone

\* Coming back with an error, from whichever step met it.
LEMMA RefusedKeeps ==
  ASSUME Alone, NEW w \in Workers, NEW why \in {"refused", "offline"},
         pc[w] \notin {"idle", "trunc", "save"}, Refused(w, why),
         UNCHANGED <<current, file, meta, landed, at, body, sent, seen>>,
         DOMAIN part' = Files, DOMAIN handle' = Workers
  PROVE  Alone'
  <1> DEFINE f == at[w]
             noting == stage[w] = "check" /\ Held(f)
  <1> USE DEF Refused, Mine
  <1>1. Typed /\ PerWorker(w) /\ f \in Files /\ PerFile
    BY DEF Alone, Typed
  <1>2. \E l \in Places : Goto(w, l)
    BY DEF Places
  <1>3. CASE noting /\ News(w, why)
    <2>1. pc'[w] = "trunc" /\ then'[w] = "idle" /\ note'[w] = [meta[f] EXCEPT !.refused = why]
      BY <1>1, <1>3 DEF Typed, Goto
    <2>2. meta[f] \in Records /\ file[f] # Missing /\ meta[f].len = Len(file[f])
      BY <1>1, <1>3 DEF Held, Typed
    <2>3. note'[w] \in Records /\ note'[w].len = meta[f].len /\ note'[w].tag = meta[f].tag
      BY <2>1, <2>2 DEF Records
    <2>4. meta[f].tag <= Version(f)
      BY <1>1, <2>2, CacheAssumption, <1>3 DEF PerFile, InOrder, Held
    <2>5. Recording(w)'
      BY <2>1, <2>2, <2>3, <2>4 DEF Recording, Version
    <2>6. PerWorker(w)'
      BY <2>1, <2>5 DEF PerWorker, AsksRightly, Arriving, Confirmed
    <2>7. /\ \A v \in Workers : v # w => pc[v] = "idle"
          /\ OneWriter' /\ pc' \in [Workers -> Places]
          /\ \A v \in Workers : PerWorker(v)'
      BY <1>2, <2>6, OthersAreIdle
    <2>8. Busy(f)'
      BY <2>1 DEF Busy
    <2>9. ASSUME NEW g \in Files
          PROVE  InOrder(g)' /\ Kept(g)' /\ Silenced(g)'
      <3>1. ~Busy(g)
        BY <2>7 DEF Busy
      <3>2. InOrder(g)' /\ Kept(g)'
        BY <1>1, <3>1 DEF PerFile, InOrder, Kept, Held, Version
      <3>3. Silenced(g)'
        <4>1. CASE g = f
          BY <2>8, <4>1 DEF Silenced
        <4>2. CASE g # f
          <5>1. halted'[g] = halted[g]
            BY <1>1, <4>2 DEF Typed
          <5> QED BY <1>1, <3>1, <5>1 DEF PerFile, Silenced, Held
        <4> QED BY <4>1, <4>2
      <3> QED BY <3>2, <3>3
    <2>10. Typed'
      <3>1. note' \in [Workers -> {Missing} \cup Records]
        BY <1>1, <1>3, <2>1, <2>3 DEF Typed
      <3>2. then' \in [Workers -> Places] /\ halted' \in [Files -> BOOLEAN]
        BY <1>1, <1>3 DEF Typed, Places, Held
      <3> QED BY <1>1, <2>7, <3>1, <3>2 DEF Typed
    <2> QED BY <2>7, <2>9, <2>10 DEF Alone, PerFile
  <1>4. CASE ~(noting /\ News(w, why))
    <2>1. pc'[w] = "idle"
      BY <1>1, <1>4 DEF Typed, Goto
    <2>2. PerWorker(w)'
      BY <2>1 DEF PerWorker, AsksRightly, Arriving, Recording, Confirmed
    <2>3. /\ \A v \in Workers : v # w => pc[v] = "idle"
          /\ OneWriter' /\ pc' \in [Workers -> Places]
          /\ \A v \in Workers : PerWorker(v)'
      BY <1>2, <2>2, OthersAreIdle
    <2>4. ASSUME NEW g \in Files
          PROVE  InOrder(g)' /\ Kept(g)' /\ Silenced(g)'
      <3>1. ~Busy(g)
        BY <2>3 DEF Busy
      <3>2. InOrder(g)' /\ Kept(g)'
        BY <1>1, <3>1 DEF PerFile, InOrder, Kept, Held, Version
      <3>3. Silenced(g)'
        <4>1. CASE g = f /\ noting
          BY <1>4, <4>1 DEF Silenced, Held, News
        <4>2. CASE ~(g = f /\ noting)
          <5>1. halted'[g] = halted[g]
            BY <1>1, <4>2 DEF Typed
          <5> QED BY <1>1, <3>1, <5>1 DEF PerFile, Silenced, Held
        <4> QED BY <4>1, <4>2
      <3> QED BY <3>2, <3>3
    <2>5. Typed'
      <3>1. halted' \in [Files -> BOOLEAN]
        BY <1>1 DEF Typed, Held
      <3>2. UNCHANGED <<note, then>>
        BY <1>4
      <3> QED BY <1>1, <2>3, <3>1, <3>2 DEF Typed
    <2> QED BY <2>3, <2>4, <2>5 DEF Alone, PerFile
  <1> QED BY <1>3, <1>4

LEMMA FailKeeps ==
  ASSUME Alone, NEW w \in Workers, NEW why \in {"refused", "offline"}, Fail(w, why)
  PROVE  Alone'
  <1>1. Typed
    BY DEF Alone
  <1>2. DOMAIN part' = Files /\ DOMAIN handle' = Workers
    BY <1>1 DEF Fail, Removed, Typed
  <1>3. pc[w] \notin {"idle", "trunc", "save"}
    BY DEF Fail
  <1>4. Refused(w, why) /\ UNCHANGED <<current, file, meta, landed, at, body, sent, seen>>
    BY DEF Fail
  <1> QED BY <1>2, <1>3, <1>4, RefusedKeeps

LEMMA ReceiveKeeps ==
  ASSUME Alone, NEW w \in Workers, Receive(w)
  PROVE  Alone'
  <1> USE DEF Receive, Mine
  <1>1. Typed /\ PerWorker(w) /\ PerFile /\ OneWriter
    BY DEF Alone
  <1>2. /\ handle[w] = "part" /\ part[at[w]] = Begun(body[w], sent[w])
        /\ body[w] <= current[at[w]]
        /\ meta[at[w]] # Missing => meta[at[w]].tag <= body[w]
    BY <1>1 DEF PerWorker, Arriving
  <1>3. body[w] \in Versions /\ sent[w] \in Nat /\ Size[body[w]] \in Nat /\ at[w] \in Files
    BY <1>1, SizeIsNat DEF Typed
  <1>4. sent'[w] = sent[w] + 1 /\ sent'[w] <= Size[body[w]] /\ sent'[w] \in Nat
    BY <1>1, <1>3 DEF Typed
  <1>5. part'[at[w]] = Begun(body[w], sent'[w]) /\ part'[at[w]] # Missing
    <2>1. part'[at[w]] = Put(part[at[w]], sent[w] + 1, <<body[w], sent[w] + 1>>)
      BY <1>1, <1>2, <1>3 DEF Typed
    <2> QED BY <1>2, <1>3, <1>4, <2>1, PutGoesOn, BegunIsASequence
  <1>6. file' = file
    BY <1>2
  <1>7. PerWorker(w)'
    BY <1>2, <1>4, <1>5 DEF PerWorker, AsksRightly, Arriving, Recording, Confirmed
  <1>8. \A v \in Workers : v # w => pc[v] = "idle"
    BY <1>1 DEF OneWriter
  <1>9. \A v \in Workers : PerWorker(v)'
    <2>1. \A v \in Workers : v # w => PerWorker(v)'
      BY <1>8 DEF PerWorker, AsksRightly, Arriving, Recording, Confirmed
    <2> QED BY <1>7, <2>1
  <1>10. PerFile'
    BY <1>6, <1>8, FilesLeftAlone
  <1>11. Typed'
    <2>1. DOMAIN part' = Files /\ sent' \in [Workers -> Nat]
      BY <1>1, <1>2 DEF Typed
    <2> QED BY <1>1, <1>6, <2>1 DEF Typed, past
  <1>12. OneWriter'
    BY <1>1 DEF OneWriter
  <1> QED BY <1>9, <1>10, <1>11, <1>12 DEF Alone

LEMMA CheckKeeps ==
  ASSUME Alone, NEW w \in Workers, Check(w)
  PROVE  Alone'
  <1> DEFINE f == at[w]
             sound == part[f] # Missing
                      /\ (Len(part[f]) > 0 => part[f][1][1] \notin Refusals)
  <1> USE DEF Check, Mine
  <1>1. Typed /\ PerWorker(w)
    BY DEF Alone
  <1>2. CASE sound
    <2>1. \E l \in Places : Goto(w, l)
      BY <1>2 DEF Places
    <2>2. /\ pc'[w] = "rename"
          /\ note'[w] = [tag |-> body[w], len |-> Length(w), fresh |-> TRUE, refused |-> "no"]
          /\ UNCHANGED <<part, handle, halted, then>>
      BY <1>1, <1>2 DEF Typed, Goto
    <2>3. /\ body[w] \in Versions /\ Size[body[w]] \in Nat \ {0}
          /\ sent[w] = Size[body[w]]
      BY <1>1, SizeIsNat DEF Typed, BodyEnds
    <2>4. /\ part[f] = Begun(body[w], Size[body[w]]) /\ handle[w] = "part"
          /\ body[w] <= current[f]
          /\ meta[f] # Missing => meta[f].tag <= body[w]
      BY <1>1, <2>3 DEF PerWorker, Arriving
    <2>5. Len(part[f]) = Size[body[w]] /\ part[f][1][1] = body[w]
      BY <2>3, <2>4, BegunIsASequence
    <2>6. body[w] \in Good
      BY <1>2, <2>3, <2>5 DEF Good
    <2>7. Length(w) = Size[body[w]]
      BY <2>4, <2>5 DEF Length
    <2>8. note'[w] \in Records
      BY <2>2, <2>3, <2>7 DEF Records
    <2>9. Arriving(w)'
      BY <1>2, <2>2, <2>4, <2>6, <2>7, <2>8 DEF Arriving
    <2>10. PerWorker(w)'
      BY <2>2, <2>9 DEF PerWorker, AsksRightly, Recording, Confirmed
    <2>11. /\ \A v \in Workers : v # w => pc[v] = "idle"
           /\ OneWriter' /\ pc' \in [Workers -> Places]
           /\ \A v \in Workers : PerWorker(v)'
      BY <2>1, <2>10, OthersAreIdle
    <2>12. PerFile'
      BY <2>2, <2>11, FilesLeftAlone DEF past
    <2>13. note' \in [Workers -> {Missing} \cup Records]
      BY <1>1, <1>2, <2>2, <2>8 DEF Typed
    <2>14. Typed'
      BY <1>1, <2>2, <2>11, <2>13 DEF Typed
    <2> QED BY <2>11, <2>12, <2>14 DEF Alone
  <1>3. CASE ~sound
    <2>1. DOMAIN part' = Files /\ DOMAIN handle' = Workers
      BY <1>1, <1>3 DEF Removed, Typed
    <2>2. \E why \in {"refused", "offline"} : Refused(w, why)
      BY <1>3
    <2> QED BY <2>1, <2>2, RefusedKeeps
  <1> QED BY <1>2, <1>3

LEMMA RenameKeeps ==
  ASSUME Alone, NEW w \in Workers, Rename(w)
  PROVE  Alone'
  <1>0. PICK f \in Files : f = at[w]
    BY DEF Alone, Typed
  <1> USE <1>0 DEF Rename, Mine
  <1>1. Typed /\ PerWorker(w) /\ PerFile /\ f \in Files
    BY DEF Alone, Typed
  <1>2. /\ part[f] = Body(body[w]) /\ part[f] # Missing
        /\ body[w] \in Good /\ note[w] \in Records
        /\ note[w].tag = body[w] /\ note[w].len = Size[body[w]] /\ note[w].refused = "no"
        /\ body[w] <= current[f]
        /\ meta[f] # Missing => meta[f].tag <= body[w]
    BY <1>1 DEF PerWorker, Arriving, Body
  <1>3. \E l \in Places : Goto(w, l)
    BY <1>2 DEF Places
  <1>4. pc'[w] = "trunc" /\ then'[w] \in {"next", "read"} /\ file'[f] = Body(body[w])
    BY <1>1, <1>2 DEF Typed, Goto
  <1>5. /\ Len(file'[f]) = Size[body[w]] /\ file'[f] # Missing
        /\ file'[f][1][1] = body[w] /\ body[w] \in Nat
    BY <1>2, <1>4, BodyFacts, SizeIsNat DEF Good
  <1>6. UNCHANGED <<note, halted, current, meta, landed, at, body, sent, seen>>
    BY <1>2
  <1>7. Recording(w)'
    BY <1>2, <1>4, <1>5, <1>6 DEF Recording, Version
  <1>8. PerWorker(w)'
    BY <1>4, <1>7 DEF PerWorker, AsksRightly, Arriving, Confirmed
  <1>9. /\ \A v \in Workers : v # w => pc[v] = "idle"
        /\ OneWriter' /\ pc' \in [Workers -> Places]
        /\ \A v \in Workers : PerWorker(v)'
    BY <1>3, <1>8, OthersAreIdle
  <1>10. Busy(f)'
    BY <1>4, <1>6 DEF Busy
  <1>11. ASSUME NEW g \in Files
         PROVE  InOrder(g)' /\ Kept(g)' /\ Silenced(g)'
    <2>1. CASE g = f
      BY <1>1, <1>2, <1>5, <1>6, <1>10, <2>1 DEF PerFile, InOrder, Version, Kept, Silenced
    <2>2. CASE g # f
      <3>1. file'[g] = file[g] /\ ~Busy(g)
        BY <1>1, <1>2, <1>9, <2>2 DEF Typed, Busy
      <3> QED BY <1>1, <1>6, <3>1 DEF PerFile, InOrder, Version, Kept, Silenced, Held
    <2> QED BY <2>1, <2>2
  <1>12. Typed'
    <2>1. file' \in [Files -> {Missing} \cup {Body(v) : v \in Good}]
      BY <1>1, <1>2 DEF Typed
    <2>2. DOMAIN part' = Files /\ then' \in [Workers -> Places]
      BY <1>1, <1>2 DEF Typed, Places
    <2>3. DOMAIN handle' = Workers
      BY <1>2 DEF Renamed
    <2> QED BY <1>1, <1>6, <1>9, <2>1, <2>2, <2>3 DEF Typed
  <1> QED BY <1>9, <1>11, <1>12 DEF Alone, PerFile

-----------------------------------------------------------------------------
(* The steps that write the record.                                        *)

LEMMA TruncateKeeps ==
  ASSUME Alone, NEW w \in Workers, Truncate(w)
  PROVE  Alone'
  <1>0. PICK f \in Files : f = at[w]
    BY DEF Alone, Typed
  <1> USE <1>0 DEF Truncate, Mine
  <1>1. Typed /\ PerWorker(w) /\ PerFile /\ f \in Files
    BY DEF Alone, Typed
  <1>2. \E l \in Places : Goto(w, l)
    BY DEF Places
  <1>3. pc'[w] = "save" /\ meta'[f] = Missing
    BY <1>1 DEF Typed, Goto
  <1>4. Recording(w)'
    BY <1>1 DEF PerWorker, Recording, Version, locals
  <1>5. PerWorker(w)'
    BY <1>3, <1>4 DEF PerWorker, AsksRightly, Arriving, Confirmed
  <1>6. /\ \A v \in Workers : v # w => pc[v] = "idle"
        /\ OneWriter' /\ pc' \in [Workers -> Places]
        /\ \A v \in Workers : PerWorker(v)'
    BY <1>2, <1>5, OthersAreIdle
  <1>7. Busy(f)'
    BY <1>3 DEF Busy, locals
  <1>8. ASSUME NEW g \in Files
        PROVE  InOrder(g)' /\ Kept(g)' /\ Silenced(g)'
    <2>1. CASE g = f
      BY <1>1, <1>3, <1>7, <2>1 DEF PerFile, InOrder, Version, Kept, Silenced
    <2>2. CASE g # f
      <3>1. meta'[g] = meta[g] /\ ~Busy(g)
        BY <1>1, <1>6, <2>2 DEF Typed, Busy
      <3> QED BY <1>1, <3>1 DEF PerFile, InOrder, Version, Kept, Silenced, Held, past
    <2> QED BY <2>1, <2>2
  <1>9. Typed'
    <2>1. meta' \in [Files -> {Missing} \cup Records]
      BY <1>1 DEF Typed
    <2> QED BY <1>1, <1>6, <2>1 DEF Typed, past, locals
  <1> QED BY <1>6, <1>8, <1>9 DEF Alone, PerFile

LEMMA SaveKeeps ==
  ASSUME Alone, NEW w \in Workers, Save(w)
  PROVE  Alone'
  <1>0. PICK f \in Files : f = at[w]
    BY DEF Alone, Typed
  <1> USE <1>0 DEF Save, Mine
  <1>1. Typed /\ PerWorker(w) /\ PerFile /\ f \in Files
    BY DEF Alone, Typed
  <1>2. /\ file[f] # Missing /\ note[w] \in Records /\ note[w].len = Len(file[f])
        /\ note[w].tag <= Version(f) /\ then[w] \in {"idle", "next", "read", "touch"}
        /\ then[w] = "touch" => file[f] = Body(note[w].tag) /\ note[w].refused = "no"
    BY <1>1 DEF PerWorker, Recording
  <1>3. \E l \in Places : Goto(w, l)
    BY <1>2 DEF Places
  <1>4. pc'[w] = then[w] /\ meta'[f] = note[w] /\ note[w] # Missing
    BY <1>1, <1>2, CacheAssumption DEF Typed, Goto, Records, Versions
  <1>5. Held(f)'
    BY <1>2, <1>4 DEF Held
  <1>6. PerWorker(w)'
    BY <1>2, <1>4, <1>5 DEF PerWorker, AsksRightly, Arriving, Recording, Confirmed, locals
  <1>7. /\ \A v \in Workers : v # w => pc[v] = "idle"
        /\ OneWriter' /\ pc' \in [Workers -> Places]
        /\ \A v \in Workers : PerWorker(v)'
    BY <1>3, <1>6, OthersAreIdle
  <1>8. ASSUME NEW g \in Files
        PROVE  InOrder(g)' /\ Kept(g)' /\ Silenced(g)'
    <2>1. CASE g = f
      <3>1. Version(f) \in Nat /\ current[f] \in Nat /\ note[w].tag \in Nat
        <4>1. PICK v \in Good : file[f] = Body(v)
          BY <1>1, <1>2 DEF Typed
        <4>2. Version(f) \in Nat
          BY <4>1, BodyFacts, SizeIsNat DEF Good, Version
        <4>3. current[f] \in Nat /\ note[w].tag \in Nat
          BY <1>1, <1>2, SizeIsNat DEF Typed, Records
        <4> QED BY <4>2, <4>3
      <3>2. InOrder(f)'
        BY <1>1, <1>2, <1>4, <3>1 DEF PerFile, InOrder, Version
      <3>3. halted'[f] => note[w].refused # "no"
        BY <1>1 DEF Typed
      <3> QED BY <1>4, <1>5, <2>1, <3>2, <3>3 DEF Kept, Silenced
    <2>2. CASE g # f
      <3>1. /\ meta'[g] = meta[g] /\ landed'[g] = landed[g] /\ halted'[g] = halted[g]
            /\ ~Busy(g)
        BY <1>1, <1>7, <2>2 DEF Typed, Busy
      <3> QED BY <1>1, <3>1 DEF PerFile, InOrder, Version, Kept, Silenced, Held
    <2> QED BY <2>1, <2>2
  <1>9. Typed'
    <2>1. meta' \in [Files -> {Missing} \cup Records]
      BY <1>1, <1>2 DEF Typed
    <2>2. halted' \in [Files -> BOOLEAN] /\ landed' \in [Files -> BOOLEAN]
      BY <1>1 DEF Typed
    <2> QED BY <1>1, <1>7, <2>1, <2>2 DEF Typed, locals
  <1> QED BY <1>7, <1>8, <1>9 DEF Alone, PerFile

LEMMA ClearKeeps ==
  ASSUME Alone, NEW w \in Workers, Clear(w)
  PROVE  Alone'
  <1>0. PICK f \in Files : f = at[w]
    BY DEF Alone, Typed
  <1> USE <1>0 DEF Clear, Mine
  <1>1. Typed /\ PerWorker(w) /\ PerFile
    BY DEF Alone
  <1>2. Held(f) /\ file[f] = Body(meta[f].tag) /\ meta[f] \in Records
    BY <1>1 DEF PerWorker, Confirmed, Held, Typed
  <1>3. \E l \in Places : Goto(w, l)
    BY DEF Places
  <1>4. /\ meta[f].refused # "no" =>
             /\ pc'[w] = "trunc" /\ then'[w] = "touch"
             /\ note'[w] = [meta[f] EXCEPT !.refused = "no"]
        /\ meta[f].refused = "no" => pc'[w] = "touch"
    BY <1>1, <1>2 DEF Typed, Goto
  <1>5. /\ [meta[f] EXCEPT !.refused = "no"] \in Records
        /\ [meta[f] EXCEPT !.refused = "no"].len = meta[f].len
        /\ [meta[f] EXCEPT !.refused = "no"].tag = meta[f].tag
        /\ [meta[f] EXCEPT !.refused = "no"].refused = "no"
    BY <1>2 DEF Records
  <1>6. meta[f].tag <= Version(f) /\ meta[f].len = Len(file[f]) /\ file[f] # Missing
    BY <1>1, <1>2 DEF PerFile, InOrder, Held
  <1>7. Recording(w)' /\ Confirmed(w)'
    <2>1. CASE meta[f].refused = "no"
      BY <1>2, <1>4, <2>1 DEF Recording, Confirmed, Held, disk
    <2>2. CASE meta[f].refused # "no"
      BY <1>2, <1>4, <1>5, <1>6, <2>2 DEF Recording, Confirmed, Version, disk
    <2> QED BY <2>1, <2>2
  <1>8. PerWorker(w)'
    BY <1>4, <1>7 DEF PerWorker, AsksRightly, Arriving
  <1>9. /\ \A v \in Workers : v # w => pc[v] = "idle"
        /\ OneWriter' /\ pc' \in [Workers -> Places]
        /\ \A v \in Workers : PerWorker(v)'
    BY <1>3, <1>8, OthersAreIdle
  <1>10. PerFile'
    BY <1>9, FilesLeftAlone DEF disk
  <1>11. Typed'
    <2>1. note' \in [Workers -> {Missing} \cup Records]
      BY <1>1, <1>5 DEF Typed
    <2>2. then' \in [Workers -> Places]
      BY <1>1 DEF Typed, Places
    <2> QED BY <1>1, <1>9, <2>1, <2>2 DEF Typed, disk, past
  <1> QED BY <1>9, <1>10, <1>11 DEF Alone

LEMMA TouchKeeps ==
  ASSUME Alone, NEW w \in Workers, Touch(w)
  PROVE  Alone'
  <1>0. PICK f \in Files : f = at[w]
    BY DEF Alone, Typed
  <1> USE <1>0 DEF Touch, Mine
  <1>1. Typed /\ PerWorker(w) /\ PerFile
    BY DEF Alone
  <1>2. /\ Held(f) /\ file[f] = Body(meta[f].tag) /\ meta[f] \in Records
        /\ meta[f].refused = "no"
    BY <1>1 DEF PerWorker, Confirmed, Held, Typed
  <1>3. \E l \in Places : Goto(w, l)
    BY DEF Places
  <1>4. /\ pc'[w] = "trunc" /\ then'[w] = "next"
        /\ note'[w] = [meta[f] EXCEPT !.fresh = TRUE]
    BY <1>1, <1>2 DEF Typed, Goto
  <1>5. note'[w] \in Records /\ note'[w].len = meta[f].len /\ note'[w].tag = meta[f].tag
        /\ note'[w].refused = "no"
    <2>1. [meta[f] EXCEPT !.fresh = TRUE] \in Records
      BY <1>2 DEF Records
    <2>2. /\ [meta[f] EXCEPT !.fresh = TRUE].len = meta[f].len
          /\ [meta[f] EXCEPT !.fresh = TRUE].tag = meta[f].tag
          /\ [meta[f] EXCEPT !.fresh = TRUE].refused = meta[f].refused
      BY <1>2 DEF Records
    <2> QED BY <1>2, <1>4, <2>1, <2>2
  <1>6. meta[f].tag <= Version(f) /\ meta[f].len = Len(file[f]) /\ file[f] # Missing
    BY <1>1, <1>2 DEF PerFile, InOrder, Held
  <1>7. Recording(w)'
    BY <1>2, <1>4, <1>5, <1>6 DEF Recording, Version, disk
  <1>8. PerWorker(w)'
    BY <1>4, <1>7 DEF PerWorker, AsksRightly, Arriving, Confirmed
  <1>9. /\ \A v \in Workers : v # w => pc[v] = "idle"
        /\ OneWriter' /\ pc' \in [Workers -> Places]
        /\ \A v \in Workers : PerWorker(v)'
    BY <1>3, <1>8, OthersAreIdle
  <1>10. PerFile'
    BY <1>9, FilesLeftAlone DEF disk
  <1>11. Typed'
    <2>1. note' \in [Workers -> {Missing} \cup Records]
      BY <1>1, <1>2, <1>4, <1>5 DEF Typed
    <2>2. then' \in [Workers -> Places]
      BY <1>1 DEF Typed, Places
    <2> QED BY <1>1, <1>9, <2>1, <2>2 DEF Typed, disk, past
  <1> QED BY <1>9, <1>10, <1>11 DEF Alone

-----------------------------------------------------------------------------
(* A worker starts, and what happens around the workers.                   *)

LEMMA BeginKeeps ==
  ASSUME Alone, world # "race", NEW w \in Workers, NEW how \in {"IfDue", "Now"}, Begin(w, how)
  PROVE  Alone'
  <1> USE DEF Begin
  <1>1. Typed /\ PerFile
    BY DEF Alone
  <1>2. \A v \in Workers : pc[v] = "idle"
    OBVIOUS
  <1>3. /\ pc'[w] \in {"refresh", "get"}
        /\ \A v \in Workers : v # w => pc'[v] = "idle"
        /\ pc' \in [Workers -> Places]
    BY <1>1, <1>2 DEF Typed, Goto, Places
  <1>4. OneWriter'
    BY <1>3 DEF OneWriter
  <1>5. \A v \in Workers : PerWorker(v)'
    BY <1>3 DEF PerWorker, AsksRightly, Arriving, Recording, Confirmed
  <1>6. PerFile'
    <2> SUFFICES ASSUME NEW f \in Files
                 PROVE  InOrder(f)' /\ Kept(f)' /\ Silenced(f)'
      BY DEF PerFile
    <2>1. ~Busy(f)
      BY <1>2 DEF Busy
    <2> QED BY <1>1, <2>1 DEF PerFile, InOrder, Version, Kept, Silenced, Held, past, disk
  <1>7. at' \in [Workers -> Files]
    BY <1>1, CacheAssumption DEF Typed, Files
  <1>8. Typed'
    BY <1>1, <1>3, <1>7 DEF Typed, past, disk
  <1> QED BY <1>4, <1>5, <1>6, <1>8 DEF Alone

LEMMA PublishKeeps ==
  ASSUME Alone, NEW f \in Files, Publish(f)
  PROVE  Alone'
  <1> USE DEF Publish
  <1>1. Typed /\ PerFile /\ OneWriter /\ \A w \in Workers : PerWorker(w)
    BY DEF Alone
  <1>2. /\ current' \in [Files -> Versions]
        /\ \A g \in Files : /\ current[g] \in Nat /\ current'[g] \in Nat
                             /\ current[g] <= current'[g]
    BY <1>1, SizeIsNat DEF Typed
  <1>3. Typed'
    BY <1>1, <1>2 DEF Typed, disk, past, locals
  <1>4. ASSUME NEW g \in Files
        PROVE  InOrder(g)' /\ Kept(g)' /\ Silenced(g)'
    <2>1. meta[g] # Missing => meta[g].tag \in Nat
      BY <1>1, SizeIsNat DEF Typed, Records
    <2>2. file[g] # Missing => Version(g) \in Nat
      <3> SUFFICES ASSUME file[g] # Missing
                   PROVE  Version(g) \in Nat
        OBVIOUS
      <3>1. PICK v \in Good : file[g] = Body(v)
        BY <1>1 DEF Typed
      <3> QED BY <3>1, BodyFacts, SizeIsNat DEF Good, Version
    <2>3. InOrder(g)'
      BY <1>1, <1>2, <2>1, <2>2 DEF PerFile, InOrder, Version, disk
    <2>4. Kept(g)' /\ Silenced(g)'
      BY <1>1 DEF PerFile, Kept, Silenced, Held, Busy, disk, past, locals
    <2> QED BY <2>3, <2>4
  <1>5. ASSUME NEW w \in Workers
        PROVE  PerWorker(w)'
    <2>1. at[w] \in Files /\ body[w] \in Nat
      BY <1>1, SizeIsNat DEF Typed
    <2>2. Arriving(w)'
      BY <1>1, <1>2, <2>1 DEF PerWorker, Arriving, disk, locals
    <2>3. AsksRightly(w)' /\ Recording(w)' /\ Confirmed(w)'
      BY <1>1 DEF PerWorker, AsksRightly, Recording, Confirmed, Held, Version, disk, locals
    <2> QED BY <2>2, <2>3 DEF PerWorker
  <1>6. OneWriter'
    BY <1>1 DEF OneWriter
  <1> QED BY <1>3, <1>4, <1>5, <1>6 DEF Alone, PerFile

LEMMA AgeKeeps ==
  ASSUME Alone, NEW f \in Files, Age(f)
  PROVE  Alone'
  <1> USE DEF Age
  <1>1. Typed /\ PerFile /\ OneWriter /\ \A w \in Workers : PerWorker(w)
    BY DEF Alone
  <1>2. meta[f] \in Records
    BY <1>1 DEF Typed
  <1>3. meta' \in [Files -> {Missing} \cup Records]
    <2>1. [meta[f] EXCEPT !.fresh = FALSE] \in Records
      BY <1>2 DEF Records
    <2> QED BY <1>1, <2>1 DEF Typed
  <1>4. meta'[f] # Missing
    <2>1. meta'[f] = [meta[f] EXCEPT !.fresh = FALSE]
      BY <1>1 DEF Typed
    <2>2. [meta[f] EXCEPT !.fresh = FALSE] \in Records
      BY <1>2 DEF Records
    <2>3. Records \subseteq [tag : Nat, len : Nat, fresh : BOOLEAN,
                            refused : {"no", "refused", "offline"}]
      BY DEF Records, Versions
    <2> QED BY <2>1, <2>2, <2>3, CacheAssumption
  <1>5. \A g \in Files :
          /\ meta'[g] = Missing <=> meta[g] = Missing
          /\ meta[g] # Missing => /\ meta'[g].tag = meta[g].tag
                                 /\ meta'[g].len = meta[g].len
                                 /\ meta'[g].refused = meta[g].refused
    <2> SUFFICES ASSUME NEW g \in Files
                 PROVE  /\ meta'[g] = Missing <=> meta[g] = Missing
                        /\ meta[g] # Missing => /\ meta'[g].tag = meta[g].tag
                                               /\ meta'[g].len = meta[g].len
                                               /\ meta'[g].refused = meta[g].refused
      OBVIOUS
    <2>1. CASE g = f
      BY <1>1, <1>2, <1>4, <2>1 DEF Typed, Records
    <2>2. CASE g # f
      BY <1>1, <2>2 DEF Typed
    <2> QED BY <2>1, <2>2
  <1>6. Typed'
    BY <1>1, <1>3 DEF Typed, past, locals
  <1>7. \A g \in Files : Held(g)' <=> Held(g)
    BY <1>5 DEF Held
  <1>8. ASSUME NEW g \in Files
        PROVE  InOrder(g)' /\ Kept(g)' /\ Silenced(g)'
    BY <1>1, <1>5, <1>7 DEF PerFile, InOrder, Version, Kept, Silenced, Busy, Held, past, locals
  <1>9. ASSUME NEW w \in Workers
        PROVE  PerWorker(w)'
    <2>1. at[w] \in Files
      BY <1>1 DEF Typed
    <2>2. AsksRightly(w)' /\ Confirmed(w)'
      BY <1>1, <1>5, <1>7, <2>1 DEF PerWorker, AsksRightly, Confirmed, Held, locals
    <2>3. Arriving(w)' /\ Recording(w)'
      BY <1>1, <1>5, <2>1 DEF PerWorker, Arriving, Recording, Version, locals
    <2> QED BY <2>2, <2>3 DEF PerWorker
  <1>10. OneWriter'
    BY <1>1 DEF OneWriter
  <1> QED BY <1>6, <1>8, <1>9, <1>10 DEF Alone, PerFile

LEMMA KillKeeps ==
  ASSUME Alone, Kill
  PROVE  Alone'
  <1> USE DEF Kill
  <1>1. Typed /\ PerFile
    BY DEF Alone
  <1>2. \A v \in Workers : pc'[v] = "idle"
    OBVIOUS
  <1>3. OneWriter' /\ \A v \in Workers : PerWorker(v)'
    BY <1>2 DEF OneWriter, PerWorker, AsksRightly, Arriving, Recording, Confirmed
  <1>4. ASSUME NEW f \in Files
        PROVE  InOrder(f)' /\ Kept(f)' /\ Silenced(f)'
    BY <1>1 DEF PerFile, InOrder, Version, Kept, Silenced, Held, disk
  <1>5. Typed'
    <2>1. halted' \in [Files -> BOOLEAN] /\ landed' \in [Files -> BOOLEAN]
      BY <1>1 DEF Typed, Held
    <2>2. pc' \in [Workers -> Places] /\ DOMAIN handle' = Workers
      BY DEF Places
    <2> QED BY <1>1, <2>1, <2>2 DEF Typed, disk
  <1> QED BY <1>3, <1>4, <1>5 DEF Alone, PerFile

LEMMA DeleteKeeps ==
  ASSUME Alone, NEW f \in Files, Delete(f)
  PROVE  Alone'
  <1> USE DEF Delete
  <1>1. Typed /\ PerFile
    BY DEF Alone
  <1>2. OneWriter' /\ \A v \in Workers : PerWorker(v)'
    BY DEF OneWriter, PerWorker, AsksRightly, Arriving, Recording, Confirmed
  <1>3. ASSUME NEW g \in Files
        PROVE  InOrder(g)' /\ Kept(g)' /\ Silenced(g)'
    <2>1. CASE g = f
      BY <1>1, <2>1 DEF Typed, PerFile, InOrder, Version, Kept, Silenced
    <2>2. CASE g # f
      <3>1. file'[g] = file[g] /\ halted'[g] = halted[g] /\ landed'[g] = landed[g]
        BY <1>1, <2>2 DEF Typed
      <3>2. ~Busy(g)
        BY DEF Busy
      <3> QED BY <1>1, <3>1, <3>2 DEF PerFile, InOrder, Version, Kept, Silenced, Held
    <2> QED BY <2>1, <2>2
  <1>4. Typed'
    <2>1. file' \in [Files -> {Missing} \cup {Body(v) : v \in Good}]
      BY <1>1 DEF Typed
    <2>2. halted' \in [Files -> BOOLEAN] /\ landed' \in [Files -> BOOLEAN]
      BY <1>1 DEF Typed
    <2> QED BY <1>1, <2>1, <2>2 DEF Typed, locals
  <1> QED BY <1>2, <1>3, <1>4 DEF Alone, PerFile

-----------------------------------------------------------------------------
(* The theorems.                                                           *)

LEMMA InitAlone == Init => Inv
  <1> SUFFICES ASSUME Init
               PROVE  Inv
    OBVIOUS
  <1> USE DEF Init
  <1>1. 1 \in Versions /\ 1 \in Files
    BY CacheAssumption DEF Versions, Files
  <1>2. Typed
    BY <1>1 DEF Typed, Places
  <1>3. OneWriter /\ \A w \in Workers : PerWorker(w)
    BY DEF OneWriter, PerWorker, AsksRightly, Arriving, Recording, Confirmed
  <1>4. PerFile
    BY DEF PerFile, InOrder, Kept, Silenced
  <1> QED BY <1>2, <1>3, <1>4 DEF Inv, Alone

LEMMA WorldIsFrozen == [Next]_vars => world' = world
  <1> SUFFICES ASSUME [Next]_vars
               PROVE  world' = world
    OBVIOUS
  <1>1. ASSUME NEW w \in Workers, Step(w)
        PROVE  world' = world
    BY <1>1 DEF Step, Get, Read, Refresh, NextFile, Done, Open, Answer, NotModified,
                Receive, Check, Rename, Truncate, Save, Clear, Touch
  <1>2. ASSUME NEW w \in Workers, Refuse(w) \/ Lose(w)
        PROVE  world' = world
    BY <1>2 DEF Refuse, Lose, Fail
  <1>3. ASSUME NEW w \in Workers, NEW how \in {"IfDue", "Now"}, Begin(w, how)
        PROVE  world' = world
    BY <1>3 DEF Begin
  <1>4. ASSUME NEW f \in Files, Publish(f) \/ Age(f) \/ Delete(f)
        PROVE  world' = world
    BY <1>4 DEF Publish, Age, Delete
  <1>5. CASE Kill
    BY <1>5 DEF Kill
  <1>6. CASE UNCHANGED vars
    BY <1>6 DEF vars
  <1> QED BY <1>1, <1>2, <1>3, <1>4, <1>5, <1>6 DEF Next

LEMMA NextKeeps == Inv /\ [Next]_vars => Inv'
  <1>0. [Next]_vars => world' = world
    BY WorldIsFrozen
  <1> SUFFICES ASSUME Inv, [Next]_vars, world # "race"
               PROVE  Alone' /\ world' \in Worlds
    BY <1>0 DEF Inv
  <1>1. Alone /\ world \in Worlds
    BY DEF Inv
  <1>2. world' = world
    BY <1>0
  <1>3. ASSUME NEW w \in Workers, Step(w)
        PROVE  Alone'
    BY <1>1, <1>3, GetKeeps, ReadKeeps, RefreshKeeps, NextFileKeeps, DoneKeeps, OpenKeeps,
       AnswerKeeps, NotModifiedKeeps, ReceiveKeeps, CheckKeeps, RenameKeeps, TruncateKeeps,
       SaveKeeps, ClearKeeps, TouchKeeps DEF Step
  <1>4. ASSUME NEW w \in Workers, Refuse(w) \/ Lose(w)
        PROVE  Alone'
    BY <1>1, <1>4, FailKeeps DEF Refuse, Lose
  <1>5. ASSUME NEW w \in Workers, NEW how \in {"IfDue", "Now"}, Begin(w, how)
        PROVE  Alone'
    BY <1>1, <1>5, BeginKeeps
  <1>6. ASSUME NEW f \in Files, Publish(f) \/ Age(f) \/ Delete(f)
        PROVE  Alone'
    BY <1>1, <1>6, PublishKeeps, AgeKeeps, DeleteKeeps
  <1>7. CASE Kill
    BY <1>1, <1>2, <1>7, KillKeeps
  <1>8. CASE UNCHANGED vars
    <2>1. \A f \in Files : InOrder(f)' /\ Kept(f)' /\ Silenced(f)'
      BY <1>1, <1>8 DEF Alone, PerFile, InOrder, Version, Kept, Silenced, Held, Busy,
                        vars, disk, locals, past
    <2>2. \A w \in Workers : PerWorker(w)'
      BY <1>1, <1>8 DEF Alone, PerWorker, AsksRightly, Arriving, Recording, Confirmed, Held,
                        Version, vars, disk, locals, past
    <2>3. Typed' /\ OneWriter'
      BY <1>1, <1>8 DEF Alone, Typed, OneWriter, vars, disk, locals, past
    <2> QED BY <1>1, <1>2, <2>1, <2>2, <2>3 DEF Alone, PerFile
  <1> QED BY <1>1, <1>2, <1>3, <1>4, <1>5, <1>6, <1>7, <1>8 DEF Next

(***************************************************************************)
(* The inductive invariant: with one worker at a time, what arrives is the *)
(* beginning of one version, what is renamed is all of it, what is about   *)
(* to be recorded belongs to the file beside it, and no tag is newer than  *)
(* its file.                                                               *)
(***************************************************************************)
THEOREM CacheInvariant == Spec => []Inv
  <1> QED BY InitAlone, NextKeeps, PTL DEF Spec

(***************************************************************************)
(* The copy Cache::cached hands out is one version, whole, and never a     *)
(* complaint answered with a 200, whatever was killed or cut off.          *)
(***************************************************************************)
THEOREM ServedIsWhole == Spec => []WholeIsServed
  <1>1. Inv => WholeIsServed
    BY DEF Inv, Alone, Typed, Good, WholeIsServed, CopyIsWhole, Held
  <1> QED BY <1>1, CacheInvariant, PTL

(***************************************************************************)
(* A copy that landed stays held, but for the moments its record is being  *)
(* rewritten: a failed, cut off or halted refresh leaves it alone.         *)
(***************************************************************************)
THEOREM LandedIsHeld == Spec => []StaysHeld
  <1>1. Inv => StaysHeld
    BY DEF Inv, Alone, PerFile, Kept, Busy, StaysHeld
  <1> QED BY <1>1, CacheInvariant, PTL

(***************************************************************************)
(* A check that ended well has a copy whose tag is its own, also when a    *)
(* kill had left new bytes under the old tag.                              *)
(***************************************************************************)
THEOREM ChecksAreTrue == Spec => CheckedIsTrue
  <1>1. Inv /\ [Next]_vars =>
          [\A w \in Workers :
             world # "race" /\ pc[w] \in {"save", "touch"} /\ pc'[w] = "next" =>
               Held(at[w])' /\ file'[at[w]] = Body(meta'[at[w]].tag)]_vars
    <2> SUFFICES ASSUME Inv, Next, NEW w \in Workers, world # "race",
                        pc[w] \in {"save", "touch"}, pc'[w] = "next"
                 PROVE  Held(at[w])' /\ file'[at[w]] = Body(meta'[at[w]].tag)
      OBVIOUS
    <2>1. Alone /\ Typed /\ OneWriter /\ PerWorker(w)
      BY DEF Inv, Alone
    <2>2. Save(w) \/ Touch(w)
      <3>1. ASSUME NEW v \in Workers, Step(v) \/ Refuse(v) \/ Lose(v)
            PROVE  Save(w) \/ Touch(w)
        <4>1. pc[v] # "idle"
          BY <3>1 DEF Step, Get, Read, Refresh, NextFile, Done, Open, Answer, NotModified,
                     Receive, Check, Rename, Truncate, Save, Clear, Touch, Fail, Refuse, Lose
        <4>2. v = w
          BY <2>1, <4>1 DEF OneWriter
        <4> QED BY <3>1, <4>2 DEF Step, Get, Read, Refresh, NextFile, Done, Open, Answer,
                   NotModified, Receive, Check, Rename, Truncate, Clear, Fail, Refuse, Lose
      <3>2. \A v \in Workers, how \in {"IfDue", "Now"} : ~Begin(v, how)
        BY DEF Begin
      <3>3. \A f \in Files : ~Publish(f) /\ ~Age(f) /\ ~Delete(f)
        BY DEF Publish, Age, Delete
      <3>4. ~Kill
        BY DEF Kill
      <3> QED BY <3>1, <3>2, <3>3, <3>4 DEF Next
    <2>3. CASE Save(w)
      <3>1. then[w] = "next" /\ meta'[at[w]] = note[w] /\ at' = at /\ file' = file
        BY <2>1, <2>3 DEF Save, Goto, Typed, Mine, locals
      <3>2. /\ file[at[w]] = Body(note[w].tag) /\ file[at[w]] # Missing
            /\ note[w] \in Records /\ note[w].len = Len(file[at[w]])
        BY <2>1, <2>3, <3>1 DEF Save, PerWorker, Recording
      <3>3. note[w] # Missing
        BY <3>2, CacheAssumption DEF Records, Versions
      <3> QED BY <3>1, <3>2, <3>3 DEF Held
    <2>4. CASE Touch(w)
      <3>1. Held(at[w])
        BY <2>1, <2>4 DEF Touch, PerWorker, Confirmed
      <3> QED BY <2>1, <2>4, <3>1 DEF Touch, Goto, Typed, Mine
    <2> QED BY <2>2, <2>3, <2>4
  <1> QED BY <1>1, CacheInvariant, PTL DEF Spec, CheckedIsTrue

(***************************************************************************)
(* Once a refresh of a held copy failed, the program does not ask again of *)
(* its own accord.                                                         *)
(***************************************************************************)
THEOREM HaltedAreSilent == Spec => HaltedIsSilent
  <1>1. Inv /\ [Next]_vars =>
          [\A w \in Workers :
             world # "race" /\ when[w] = "IfDue" /\ pc'[w] = "open" /\ pc[w] = "refresh" =>
               ~halted[at[w]]]_vars
    <2> SUFFICES ASSUME Inv, Next, NEW w \in Workers, world # "race",
                        when[w] = "IfDue", pc[w] = "refresh", pc'[w] = "open"
                 PROVE  ~halted[at[w]]
      OBVIOUS
    <2>1. Alone /\ Typed /\ OneWriter /\ Silenced(at[w])
      BY DEF Inv, Alone, PerFile, Typed
    <2>2. Refresh(w)
      <3>1. ASSUME NEW v \in Workers, Step(v) \/ Refuse(v) \/ Lose(v)
            PROVE  Refresh(w)
        <4>1. pc[v] # "idle"
          BY <3>1 DEF Step, Get, Read, Refresh, NextFile, Done, Open, Answer, NotModified,
                     Receive, Check, Rename, Truncate, Save, Clear, Touch, Fail, Refuse, Lose
        <4>2. v = w
          BY <2>1, <4>1 DEF OneWriter
        <4> QED BY <3>1, <4>2 DEF Step, Get, Read, NextFile, Done, Open, Answer,
                   NotModified, Receive, Check, Rename, Truncate, Save, Clear, Touch, Fail,
                   Refuse, Lose
      <3>2. \A v \in Workers, how \in {"IfDue", "Now"} : ~Begin(v, how)
        BY DEF Begin
      <3>3. \A f \in Files : ~Publish(f) /\ ~Age(f) /\ ~Delete(f)
        BY DEF Publish, Age, Delete
      <3>4. ~Kill
        BY DEF Kill
      <3> QED BY <3>1, <3>2, <3>3, <3>4 DEF Next
    <2>3. ~Busy(at[w])
      BY <2>1 DEF Busy, OneWriter
    <2>4. ~(Automatic(w) /\ meta[at[w]].refused # "no")
      BY <2>1, <2>2 DEF Refresh, Goto, Typed, Mine
    <2> QED BY <2>1, <2>3, <2>4 DEF Silenced, Automatic, Mine
  <1> QED BY <1>1, CacheInvariant, PTL DEF Spec, HaltedIsSilent

(***************************************************************************)
(* A copy that landed stays held, and what is held is one whole version.   *)
(***************************************************************************)
THEOREM CopyIsKept == Spec => []CopyStays
  <1>1. WholeIsServed /\ StaysHeld => CopyStays
    BY DEF CopyStays
  <1> QED BY <1>1, ServedIsWhole, LandedIsHeld, PTL
=============================================================================
