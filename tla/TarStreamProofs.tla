---------------------------- MODULE TarStreamProofs ---------------------------
(***************************************************************************)
(* Proofs about the tar streamer (TarStream), for every set of tars and    *)
(* every size of the buffer: what Unpack takes for the end of the tar is   *)
(* the end of a whole copy, and it learns of every failure but one.        *)
(*                                                                         *)
(* The inductive invariant StreamInv says how far the entries are: those   *)
(* before the current one are done, those after it untouched, and what the *)
(* layer writer has of the current one and what the buffer holds make up   *)
(* the chunks that were read.  It says so while no error is on its way to  *)
(* Unpack.                                                                 *)
(***************************************************************************)
EXTENDS TarStream, SequenceTheorems, TLAPS

-----------------------------------------------------------------------------
(* The inductive invariant. *)

Chunks == Nat \X Nat

\* The first n chunks of entry e.
FirstChunks(e, n) == [k \in 1..n |-> <<e, k>>]

StreamType ==
    /\ tar \in Seq(TarEntries)
    /\ pos \in 0..Len(tar) /\ read \in Nat
    /\ buf \in [data : Seq(Chunks), copies : SUBSET Nat, broken : BOOLEAN]
    /\ file \in [1..Len(tar) -> Seq(Chunks)]
    /\ copy \in [1..Len(tar) -> Seq(Chunks)]
    /\ err \in {"nil", "EOF", "error"}
    /\ pc \in {"next", "entry", "copy", "flush", "close", "eof", "failed"}

Untouched(e) == file[e] = <<>> /\ copy[e] = <<>>

Done(e) == file[e] = Content(e) /\ copy[e] = IF IsBoot(e) THEN Content(e) ELSE <<>>

\* The entries around the current one, and nothing lost.
Around ==
    /\ \A e \in 1..Len(tar) : (e < pos => Done(e)) /\ (e > pos => Untouched(e))
    /\ lost = {}

\* The current entry is under way: n chunks of it are written or buffered.
UnderWay(n) ==
    /\ pos > 0 /\ tar[pos].kind # "link"
    /\ ~buf.broken /\ buf.copies = (IF IsBoot(pos) THEN {pos} ELSE {})
    /\ file[pos] \o buf.data = FirstChunks(pos, n)
    /\ copy[pos] = IF IsBoot(pos) THEN file[pos] ELSE <<>>

\* io.EOF is returned after the last entry and only there.
EOFInv == err = "EOF" <=> pos = Len(tar)

NextInv == pc = "next" => pos = 0 /\ Around

EntryInv == pc = "entry" => pos > 0 /\ Around /\ Untouched(pos)

CopyInv == pc = "copy" => /\ err = "nil" /\ Around /\ UnderWay(read)
                          /\ read <= tar[pos].chunks

FlushInv == pc = "flush" => /\ pos > 0
                            /\ err # "error" => Around /\ UnderWay(tar[pos].chunks) /\ EOFInv

CloseInv == pc = "close" => /\ pos > 0 /\ IsBoot(pos)
                            /\ err # "error" => Around /\ Done(pos) /\ EOFInv

EndInv == pc = "eof" =>
    /\ \A e \in 1..Len(tar) : Done(e)
    /\ lost \subseteq {"close"} /\ (lost # {} => IsBoot(Len(tar)))

StreamInv == StreamType /\ NextInv /\ EntryInv /\ CopyInv /\ FlushInv /\ CloseInv /\ EndInv

-----------------------------------------------------------------------------
(* Chunks and sequences of them. *)

LEMMA FirstChunksType ==
    ASSUME NEW e \in Nat, NEW n \in Nat
    PROVE  /\ FirstChunks(e, n) \in Seq(Chunks) /\ Len(FirstChunks(e, n)) = n
           /\ \A k \in 1..n : FirstChunks(e, n)[k] = <<e, k>>
BY DEF FirstChunks, Chunks

LEMMA NoChunks ==
    ASSUME NEW e \in Nat
    PROVE  FirstChunks(e, 0) = <<>>
<1>1. FirstChunks(e, 0) \in Seq(Chunks) /\ Len(FirstChunks(e, 0)) = 0
  BY FirstChunksType
<1> QED
  BY <1>1, EmptySeq

\* One chunk more.
LEMMA NextChunk ==
    ASSUME NEW e \in Nat, NEW n \in Nat
    PROVE  /\ <<e, n + 1>> \in Chunks
           /\ FirstChunks(e, n) \o <<(<<e, n + 1>>)>> = FirstChunks(e, n + 1)
<1> DEFINE c == <<e, n + 1>>
           s == FirstChunks(e, n)
           t == FirstChunks(e, n + 1)
<1>1. c \in Chunks
  BY DEF Chunks
<1>2. /\ s \in Seq(Chunks) /\ Len(s) = n /\ \A k \in 1..n : s[k] = <<e, k>>
      /\ t \in Seq(Chunks) /\ Len(t) = n + 1 /\ \A k \in 1..(n + 1) : t[k] = <<e, k>>
  BY FirstChunksType
<1> HIDE DEF s, t
<1>3. /\ Append(s, c) \in Seq(Chunks) /\ Len(Append(s, c)) = n + 1
      /\ \A k \in 1..n : Append(s, c)[k] = s[k]
      /\ Append(s, c)[n + 1] = c
  BY <1>1, <1>2, AppendProperties
<1>4. \A k \in 1..(n + 1) : Append(s, c)[k] = t[k]
  <2> TAKE k \in 1..(n + 1)
  <2>1. CASE k \in 1..n
    BY <1>2, <1>3, <2>1
  <2>2. CASE k = n + 1
    BY <1>2, <1>3, <2>2
  <2>3. k \in 1..n \/ k = n + 1
    OBVIOUS
  <2> QED
    BY <2>1, <2>2, <2>3
<1>5. Append(s, c) = t
  BY <1>2, <1>3, <1>4, SeqEqual
<1>6. Append(s, c) = s \o <<c>>
  BY <1>1, <1>2, AppendIsConcat
<1> QED
  BY <1>1, <1>5, <1>6 DEF s, t

LEMMA ConcatType ==
    ASSUME NEW s \in Seq(Chunks), NEW t \in Seq(Chunks)
    PROVE  s \o t \in Seq(Chunks)
BY ConcatProperties

LEMMA ConcatRegroups ==
    ASSUME NEW s \in Seq(Chunks), NEW t \in Seq(Chunks), NEW u \in Seq(Chunks)
    PROVE  s \o (t \o u) = (s \o t) \o u
<1> DEFINE a == s \o (t \o u)
           b == (s \o t) \o u
<1>1. /\ a \in Seq(Chunks) /\ Len(a) = Len(s) + (Len(t) + Len(u))
      /\ b \in Seq(Chunks) /\ Len(b) = (Len(s) + Len(t)) + Len(u)
  BY ConcatProperties
<1>2. \A i \in 1..Len(a) : a[i] = b[i]
  OBVIOUS
<1> HIDE DEF a, b
<1>3. Len(a) = Len(b)
  BY <1>1
<1>4. a = b
  BY <1>1, <1>2, <1>3, SeqEqual
<1> QED
  BY <1>4 DEF a, b

LEMMA PrefixType ==
    ASSUME NEW s \in Seq(Chunks), NEW t \in Prefix(s)
    PROVE  t \in Seq(Chunks)
BY DEF Prefix

\* What the content of an entry is, and what kinds of entries there are.
LEMMA EntryFacts ==
    ASSUME StreamType, NEW e \in 1..Len(tar)
    PROVE  /\ e \in Nat /\ tar[e].chunks \in Nat
           /\ Content(e) = FirstChunks(e, tar[e].chunks) /\ Content(e) \in Seq(Chunks)
           /\ tar[e].kind = "link" => Content(e) = <<>> /\ ~IsBoot(e)
<1>1. e \in Nat /\ tar[e] \in TarEntries
  BY DEF StreamType
<1>2. tar[e].chunks \in Nat /\ (tar[e].kind = "link" => tar[e].chunks = 0)
  BY <1>1 DEF TarEntries
<1>3. Content(e) = FirstChunks(e, tar[e].chunks)
  BY DEF Content, FirstChunks
<1> QED
  BY <1>1, <1>2, <1>3, FirstChunksType, NoChunks DEF IsBoot

-----------------------------------------------------------------------------
(* The steps. *)

LEMMA InitStream == Init => StreamInv
<1> SUFFICES ASSUME Init PROVE StreamInv
  OBVIOUS
<1>1. tar \in Seq(TarEntries) /\ Len(tar) \in Nat
  BY TarsAssumption DEF Init
<1>2. <<>> \in Seq(Chunks)
  OBVIOUS
<1>3. StreamType
  BY <1>1, <1>2 DEF Init, StreamType, Fresh, Empty
<1>4. NextInv
  BY <1>1 DEF Init, NextInv, Around, Untouched, Empty
<1> QED
  BY <1>3, <1>4 DEF Init, StreamInv, EntryInv, CopyInv, FlushInv, CloseInv, EndInv

\* Control returns to Unpack with the current entry done, or with an error.
LEMMA ReturnStep ==
    ASSUME StreamType, tar' = tar, err' \in {"nil", "EOF", "error"}, Return(err'),
           read' \in Nat, buf' \in [data : Seq(Chunks), copies : SUBSET Nat, broken : BOOLEAN],
           file' \in [1..Len(tar) -> Seq(Chunks)], copy' \in [1..Len(tar) -> Seq(Chunks)],
           err' # "error" =>
               /\ \A e \in 1..Len(tar) : (e <= pos => Done(e)') /\ (e > pos => Untouched(e)')
               /\ err' = "EOF" <=> pos = Len(tar)
               /\ lost' # {} => err' = "EOF" /\ lost' = {"close"} /\ IsBoot(pos)
    PROVE  StreamInv'
<1>1. pos \in Nat /\ pos <= Len(tar) /\ Len(tar) \in Nat
  BY DEF StreamType
<1>2. pc' = After[err'] /\ pos' = (IF err' = "nil" THEN pos + 1 ELSE pos)
  BY DEF Return, Goto
<1>3. StreamType'
  BY <1>1, <1>2 DEF StreamType, After
<1>4. CASE err' = "nil"
  <2>1. pc' = "entry" /\ pos' = pos + 1 /\ pos' \in 1..Len(tar) /\ lost' = {}
    BY <1>1, <1>2, <1>4 DEF After
  <2>2. Around' /\ Untouched(pos)'
    BY <1>1, <1>4, <2>1 DEF Around, Untouched
  <2> QED
    BY <1>3, <2>1, <2>2 DEF StreamInv, NextInv, EntryInv, CopyInv, FlushInv, CloseInv, EndInv
<1>5. CASE err' = "EOF"
  <2>1. pc' = "eof" /\ pos' = Len(tar)
    BY <1>2, <1>5 DEF After
  <2>2. EndInv'
    BY <1>1, <1>5, <2>1 DEF EndInv, IsBoot
  <2> QED
    BY <1>3, <2>1, <2>2 DEF StreamInv, NextInv, EntryInv, CopyInv, FlushInv, CloseInv
<1>6. CASE err' = "error"
  <2>1. pc' = "failed"
    BY <1>2, <1>6 DEF After
  <2> QED
    BY <1>3, <2>1 DEF StreamInv, NextInv, EntryInv, CopyInv, FlushInv, CloseInv, EndInv
<1> QED
  BY <1>4, <1>5, <1>6

LEMMA AskNextStep ==
    ASSUME StreamInv, AskNext
    PROVE  StreamInv'
<1>1. StreamType /\ UNCHANGED <<tar, read, buf, file, copy>> /\ Return(err')
  BY DEF StreamInv, AskNext
<1>2. err' \in {"nil", "EOF", "error"} /\ (err' # "error" => lost' = lost)
  BY DEF AskNext, NextHeader
<1>3. err' # "error" => (err' = "EOF" <=> pos = Len(tar))
  BY <1>1 DEF AskNext, NextHeader, StreamType
<1>4. Around /\ (pos > 0 => Untouched(pos) /\ tar[pos].kind = "link")
  BY DEF AskNext, StreamInv, NextInv, EntryInv
<1>5. ASSUME NEW e \in 1..Len(tar), e <= pos PROVE Done(e)
  <2>1. CASE e < pos
    BY <1>4, <2>1 DEF Around
  <2>2. CASE e = pos
    BY <1>1, <1>4, <2>2, EntryFacts DEF Done, Untouched
  <2> QED
    BY <1>1, <1>5, <2>1, <2>2 DEF StreamType
<1>6. \A e \in 1..Len(tar) : (e <= pos => Done(e)') /\ (e > pos => Untouched(e)')
  BY <1>1, <1>4, <1>5 DEF Around, Done, Untouched, Content, IsBoot
<1>7. err' # "error" => lost' = {}
  BY <1>2, <1>4 DEF Around
<1> QED
  BY <1>1, <1>2, <1>3, <1>6, <1>7, ReturnStep DEF StreamType

\* The buffer starts empty and writes to the copy exactly for a boot file.
LEMMA BeginEntryStep ==
    ASSUME StreamInv, BeginEntry
    PROVE  StreamInv'
<1>1. StreamType /\ pos \in 1..Len(tar) /\ Around /\ Untouched(pos) /\ tar[pos].chunks \in Nat
  BY EntryFacts DEF BeginEntry, StreamInv, StreamType, EntryInv
<1>2. read' = 0 /\ UNCHANGED <<tar, file>>
  BY DEF BeginEntry
<1>3. CASE err' = "error"
  BY <1>1, <1>2, <1>3, ReturnStep DEF BeginEntry, StreamType
<1>4. CASE err' # "error"
  <2>1. /\ pc' = "copy" /\ err' = "nil" /\ UNCHANGED <<pos, lost>>
        /\ buf' = Fresh(IF IsBoot(pos) THEN {pos} ELSE {})
        /\ tar[pos].kind # "link"
    BY <1>4 DEF BeginEntry, Goto, IsBoot
  <2>2. copy' = copy
    BY <1>1, <1>4 DEF BeginEntry, StreamType, Untouched
  <2>3. StreamType'
    BY <1>1, <1>2, <2>1, <2>2 DEF StreamType, Fresh
  <2>4. Around'
    BY <1>1, <1>2, <2>1, <2>2 DEF Around, Done, Untouched, Content, IsBoot
  <2>5. UnderWay(read)'
    <3>1. file'[pos] \o buf'.data = FirstChunks(pos, 0)
      BY <1>1, <1>2, <2>1, NoChunks, <<>> \o <<>> = <<>> DEF Untouched, Fresh
    <3> QED
      BY <1>1, <1>2, <2>1, <2>2, <3>1 DEF UnderWay, IsBoot, Untouched, Fresh
  <2> QED
    BY <1>1, <1>2, <2>1, <2>3, <2>4, <2>5
    DEF StreamInv, NextInv, EntryInv, CopyInv, FlushInv, CloseInv, EndInv
<1> QED
  BY <1>3, <1>4

\* Writing the buffer out moves what it holds to the layer and to the copy.
LEMMA SpillStep ==
    ASSUME StreamType, pos \in 1..Len(tar), NEW rest \in Seq(Chunks), Spill(rest)
    PROVE  /\ buf' \in [data : Seq(Chunks), copies : SUBSET Nat, broken : BOOLEAN]
           /\ file' \in [1..Len(tar) -> Seq(Chunks)]
           /\ copy' \in [1..Len(tar) -> Seq(Chunks)]
           /\ ~buf'.broken =>
                /\ lost' = lost /\ buf'.data = rest /\ buf'.copies = buf.copies
                /\ file' = [file EXCEPT ![pos] = @ \o buf.data]
                /\ \A e \in 1..Len(tar) :
                      copy'[e] = IF e \in buf.copies THEN copy[e] \o buf.data ELSE copy[e]
<1>1. /\ buf \in [data : Seq(Chunks), copies : SUBSET Nat, broken : BOOLEAN]
      /\ buf.data \in Seq(Chunks)
  BY DEF StreamType
<1>2. [file EXCEPT ![pos] = @ \o buf.data] \in [1..Len(tar) -> Seq(Chunks)]
  <2>1. file[pos] \o buf.data \in Seq(Chunks)
    BY <1>1, ConcatType DEF StreamType
  <2> QED
    BY <2>1 DEF StreamType
<1>3. CASE /\ file' = [file EXCEPT ![pos] = @ \o buf.data]
           /\ copy' = [e \in DOMAIN copy |-> IF e \in buf.copies THEN copy[e] \o buf.data ELSE copy[e]]
           /\ buf' = [buf EXCEPT !.data = rest]
           /\ UNCHANGED lost
  <2>1. \A e \in 1..Len(tar) : copy[e] \o buf.data \in Seq(Chunks)
    BY <1>1, ConcatType DEF StreamType
  <2>2. copy' \in [1..Len(tar) -> Seq(Chunks)]
    BY <1>3, <2>1 DEF StreamType
  <2>3. /\ buf' \in [data : Seq(Chunks), copies : SUBSET Nat, broken : BOOLEAN]
        /\ buf'.data = rest /\ buf'.copies = buf.copies
    BY <1>1, <1>3
  <2> QED
    BY <1>2, <1>3, <2>2, <2>3 DEF StreamType
<1>4. ASSUME NEW part \in Prefix(buf.data)
      PROVE  /\ [file EXCEPT ![pos] = @ \o part] \in [1..Len(tar) -> Seq(Chunks)]
             /\ \A e : [copy EXCEPT ![e] = @ \o part] \in [1..Len(tar) -> Seq(Chunks)]
  <2>1. part \in Seq(Chunks)
    BY <1>1, PrefixType
  <2>2. file[pos] \o part \in Seq(Chunks) /\ \A e \in 1..Len(tar) : copy[e] \o part \in Seq(Chunks)
    BY <2>1, ConcatType DEF StreamType
  <2> QED
    BY <2>2 DEF StreamType
<1>5. ASSUME buf' = [buf EXCEPT !.broken = TRUE]
      PROVE  buf' \in [data : Seq(Chunks), copies : SUBSET Nat, broken : BOOLEAN] /\ buf'.broken
  BY <1>1, <1>5
<1>6. CASE \E part \in Prefix(buf.data) :
              /\ file' = [file EXCEPT ![pos] = @ \o part]
              /\ buf' = [buf EXCEPT !.broken = TRUE]
              /\ UNCHANGED copy
  <2>1. file' \in [1..Len(tar) -> Seq(Chunks)]
    BY <1>4, <1>6
  <2> QED
    BY <1>5, <1>6, <2>1 DEF StreamType
<1>7. CASE \E part \in Prefix(buf.data), e \in buf.copies :
              /\ file' = [file EXCEPT ![pos] = @ \o buf.data]
              /\ copy' = [copy EXCEPT ![e] = @ \o part]
              /\ buf' = [buf EXCEPT !.broken = TRUE]
  <2>1. copy' \in [1..Len(tar) -> Seq(Chunks)]
    BY <1>4, <1>7
  <2> QED
    BY <1>2, <1>5, <1>7, <2>1
<1> QED
  BY <1>3, <1>6, <1>7 DEF Spill

\* What is under way is all written once the buffer is written out with no error.
LEMMA SpillWrites ==
    ASSUME StreamType, pos \in 1..Len(tar), NEW n \in Nat, UnderWay(n),
           NEW rest \in Seq(Chunks), Spill(rest), ~buf'.broken
    PROVE  /\ lost' = lost /\ buf'.data = rest /\ buf'.copies = buf.copies
           /\ file'[pos] = FirstChunks(pos, n)
           /\ copy'[pos] = IF IsBoot(pos) THEN file'[pos] ELSE <<>>
           /\ \A e \in 1..Len(tar) : e # pos => file'[e] = file[e] /\ copy'[e] = copy[e]
<1>1. /\ lost' = lost /\ buf'.data = rest /\ buf'.copies = buf.copies
      /\ file' = [file EXCEPT ![pos] = @ \o buf.data]
      /\ \A e \in 1..Len(tar) :
            copy'[e] = IF e \in buf.copies THEN copy[e] \o buf.data ELSE copy[e]
  BY SpillStep
<1>2. /\ file'[pos] = file[pos] \o buf.data
      /\ \A e \in 1..Len(tar) : e # pos => file'[e] = file[e]
  BY <1>1 DEF StreamType
<1>3. copy'[pos] = IF IsBoot(pos) THEN file'[pos] ELSE <<>>
  BY <1>1, <1>2 DEF UnderWay
<1>4. \A e \in 1..Len(tar) : e # pos => copy'[e] = copy[e]
  BY <1>1 DEF UnderWay
<1> QED
  BY <1>1, <1>2, <1>3, <1>4 DEF UnderWay

LEMMA CopyChunkStep ==
    ASSUME StreamInv, CopyChunk
    PROVE  StreamInv'
<1> DEFINE c == <<pos, read + 1>>
<1>1. /\ StreamType /\ pos \in 1..Len(tar) /\ pos \in Nat /\ read \in Nat
      /\ Around /\ UnderWay(read) /\ err = "nil"
      /\ tar[pos].chunks \in Nat /\ read + 1 <= tar[pos].chunks
  <2>1. /\ StreamType /\ pos \in 1..Len(tar) /\ pos \in Nat /\ read \in Nat
        /\ Around /\ UnderWay(read) /\ err = "nil" /\ read < tar[pos].chunks
    <3>1. StreamType /\ Around /\ UnderWay(read) /\ err = "nil" /\ read < tar[pos].chunks
      BY DEF CopyChunk, StreamInv, CopyInv
    <3>2. pos > 0
      BY <3>1 DEF UnderWay
    <3> QED
      BY <3>1, <3>2 DEF StreamType
  <2>2. tar[pos].chunks \in Nat
    BY <2>1, EntryFacts
  <2> QED
    BY <2>1, <2>2
<1>2. pc = "copy" /\ read' = read + 1 /\ UNCHANGED <<tar, pos>>
  BY DEF CopyChunk
<1>3. c \in Chunks /\ FirstChunks(pos, read) \o <<c>> = FirstChunks(pos, read + 1)
  BY <1>1, NextChunk
<1>4. <<c>> \in Seq(Chunks)
  BY <1>3
<1> HIDE DEF c
<1>5. CASE Len(buf.data) < Cap
  <2>1. /\ buf' = [buf EXCEPT !.data = Append(@, c)] /\ UNCHANGED <<file, copy, lost>>
    BY <1>5 DEF CopyChunk, c
  <2>2. file[pos] \in Seq(Chunks) /\ buf.data \in Seq(Chunks)
    BY <1>1 DEF StreamType
  <2>3. Append(buf.data, c) \in Seq(Chunks) /\ Append(buf.data, c) = buf.data \o <<c>>
    BY <1>3, <2>2, AppendProperties, AppendIsConcat
  <2>4. file[pos] \o (buf.data \o <<c>>) = (file[pos] \o buf.data) \o <<c>>
    BY <1>4, <2>2, ConcatRegroups
  <2>5. /\ buf' \in [data : Seq(Chunks), copies : SUBSET Nat, broken : BOOLEAN]
        /\ buf'.data = Append(buf.data, c) /\ buf'.copies = buf.copies /\ ~buf'.broken
    BY <1>1, <2>1, <2>3 DEF StreamType, UnderWay
  <2>6. UnderWay(read)'
    BY <1>1, <1>2, <1>3, <2>1, <2>3, <2>4, <2>5 DEF UnderWay, IsBoot
  <2>7. Around' /\ UNCHANGED <<err, pc>>
    BY <1>1, <1>2, <2>1, <2>5 DEF CopyChunk, Around, Done, Untouched, Content, IsBoot
  <2>8. StreamType'
    <3>1. UNCHANGED <<tar, pos, file, copy, err, pc>> /\ read' \in Nat
      BY <1>1, <1>2, <2>1, <2>7
    <3> QED
      BY <1>1, <2>5, <3>1 DEF StreamType
  <2> QED
    BY <1>1, <1>2, <2>6, <2>7, <2>8
    DEF StreamInv, NextInv, EntryInv, CopyInv, FlushInv, CloseInv, EndInv
<1>6. CASE ~(Len(buf.data) < Cap)
  <2>1. Spill(<<c>>)
    BY <1>6 DEF CopyChunk, c
  <2>2. /\ buf' \in [data : Seq(Chunks), copies : SUBSET Nat, broken : BOOLEAN]
        /\ file' \in [1..Len(tar) -> Seq(Chunks)]
        /\ copy' \in [1..Len(tar) -> Seq(Chunks)]
    BY <1>1, <1>4, <2>1, SpillStep
  <2>3. CASE buf'.broken
    <3>1. err' = "error" /\ pc' = "flush"
      BY <2>3 DEF CopyChunk, Goto
    <3>2. StreamType'
      BY <1>1, <1>2, <2>2, <3>1 DEF StreamType
    <3> QED
      BY <1>1, <1>2, <3>1, <3>2
      DEF StreamInv, NextInv, EntryInv, CopyInv, FlushInv, CloseInv, EndInv
  <2>4. CASE ~buf'.broken
    <3>1. UNCHANGED <<err, pc>>
      BY <2>4 DEF CopyChunk
    <3>2. StreamType'
      BY <1>1, <1>2, <2>2, <3>1 DEF StreamType
    <3>3. /\ lost' = lost /\ buf'.data = <<c>> /\ buf'.copies = buf.copies
          /\ file'[pos] = FirstChunks(pos, read)
          /\ copy'[pos] = IF IsBoot(pos) THEN file'[pos] ELSE <<>>
          /\ \A e \in 1..Len(tar) : e # pos => file'[e] = file[e] /\ copy'[e] = copy[e]
      BY <1>1, <1>4, <2>1, <2>4, SpillWrites
    <3>4. UnderWay(read)'
      BY <1>1, <1>2, <1>3, <2>4, <3>3 DEF UnderWay, IsBoot
    <3>5. Around'
      BY <1>1, <1>2, <3>3 DEF Around, Done, Untouched, Content, IsBoot
    <3> QED
      BY <1>1, <1>2, <3>1, <3>2, <3>4, <3>5
      DEF StreamInv, NextInv, EntryInv, CopyInv, FlushInv, CloseInv, EndInv
  <2> QED
    BY <2>3, <2>4
<1> QED
  BY <1>5, <1>6

\* The content is read to its end, or not: Flush is next.
LEMMA EndOfEntryStep ==
    ASSUME StreamInv, ReadFails \/ EndOfEntry
    PROVE  StreamInv'
<1>1. /\ StreamType /\ pos \in 1..Len(tar)
      /\ Around /\ UnderWay(read)
  BY DEF ReadFails, EndOfEntry, StreamInv, StreamType, CopyInv, UnderWay
<1>2. pc' = "flush" /\ UNCHANGED <<tar, pos, read, buf, file, copy>>
  BY DEF ReadFails, EndOfEntry, Goto
<1>3. /\ err' \in {"nil", "EOF", "error"}
      /\ err' # "error" => /\ lost' = lost /\ read = tar[pos].chunks
                           /\ err' = "EOF" <=> pos = Len(tar)
  BY <1>1 DEF ReadFails, EndOfEntry, NextHeader
<1>4. StreamType'
  BY <1>1, <1>2, <1>3 DEF StreamType
<1>5. err' # "error" => Around' /\ UnderWay(tar[pos].chunks)' /\ EOFInv'
  BY <1>1, <1>2, <1>3 DEF Around, Done, Untouched, Content, IsBoot, UnderWay, EOFInv
<1> QED
  BY <1>1, <1>2, <1>4, <1>5
  DEF StreamInv, NextInv, EntryInv, CopyInv, FlushInv, CloseInv, EndInv

\* What Flush leaves behind: the entry is done, or the error stands.
LEMMA Flushed ==
    ASSUME StreamInv, Flush
    PROVE  /\ buf' \in [data : Seq(Chunks), copies : SUBSET Nat, broken : BOOLEAN]
           /\ file' \in [1..Len(tar) -> Seq(Chunks)]
           /\ copy' \in [1..Len(tar) -> Seq(Chunks)]
           /\ err' \in {"nil", "EOF", "error"}
           /\ err' # "error" =>
                /\ err' = err /\ Around /\ EOFInv /\ lost' = {}
                /\ file'[pos] = Content(pos)
                /\ copy'[pos] = IF IsBoot(pos) THEN Content(pos) ELSE <<>>
                /\ \A e \in 1..Len(tar) : e # pos => file'[e] = file[e] /\ copy'[e] = copy[e]
<1>1. StreamType /\ pos \in 1..Len(tar) /\ pos \in Nat /\ err \in {"nil", "EOF", "error"}
  BY DEF Flush, StreamInv, StreamType, FlushInv
<1>2. tar[pos].chunks \in Nat /\ Content(pos) = FirstChunks(pos, tar[pos].chunks)
  BY <1>1, EntryFacts
<1>3. /\ err' = (IF buf'.broken THEN "error" ELSE err)
      /\ err # "error" => Around /\ UnderWay(tar[pos].chunks) /\ EOFInv
  BY DEF Flush, FlushError, StreamInv, FlushInv
<1>4. CASE Spill(<<>>)
  <2>1. <<>> \in Seq(Chunks)
    OBVIOUS
  <2>2. /\ buf' \in [data : Seq(Chunks), copies : SUBSET Nat, broken : BOOLEAN]
        /\ file' \in [1..Len(tar) -> Seq(Chunks)]
        /\ copy' \in [1..Len(tar) -> Seq(Chunks)]
    BY <1>1, <1>4, <2>1, SpillStep
  <2>3. ASSUME err' # "error"
        PROVE  /\ lost' = lost
               /\ file'[pos] = FirstChunks(pos, tar[pos].chunks)
               /\ copy'[pos] = IF IsBoot(pos) THEN file'[pos] ELSE <<>>
               /\ \A e \in 1..Len(tar) : e # pos => file'[e] = file[e] /\ copy'[e] = copy[e]
    <3>1. ~buf'.broken /\ UnderWay(tar[pos].chunks)
      BY <1>3, <2>3
    <3> QED
      BY <1>1, <1>2, <1>4, <2>1, <3>1, SpillWrites
  <2> QED
    BY <1>1, <1>2, <1>3, <2>2, <2>3 DEF Around
<1>5. CASE UNCHANGED <<buf, file, copy, lost>> /\ (buf.broken \/ buf.data = <<>>)
  <2>1. ASSUME err' # "error"
        PROVE  /\ file[pos] = FirstChunks(pos, tar[pos].chunks)
               /\ copy[pos] = IF IsBoot(pos) THEN file[pos] ELSE <<>>
    <3>1. ~buf.broken /\ UnderWay(tar[pos].chunks)
      BY <1>3, <1>5, <2>1
    <3>2. file[pos] \in Seq(Chunks) /\ buf.data = <<>>
      BY <1>1, <1>5, <3>1 DEF StreamType
    <3>3. file[pos] \o <<>> = file[pos]
      BY <3>2, ConcatEmptySeq
    <3> QED
      BY <3>1, <3>2, <3>3 DEF UnderWay
  <2> QED
    BY <1>1, <1>2, <1>3, <1>5, <2>1 DEF Around, StreamType
<1> QED
  BY <1>4, <1>5 DEF Flush

LEMMA FlushStep ==
    ASSUME StreamInv, Flush
    PROVE  StreamInv'
<1>1. StreamType /\ pos \in 1..Len(tar) /\ pos \in Nat /\ UNCHANGED <<tar, read>>
  BY DEF Flush, StreamInv, StreamType, FlushInv
<1>2. /\ buf' \in [data : Seq(Chunks), copies : SUBSET Nat, broken : BOOLEAN]
      /\ file' \in [1..Len(tar) -> Seq(Chunks)]
      /\ copy' \in [1..Len(tar) -> Seq(Chunks)]
      /\ err' \in {"nil", "EOF", "error"}
  BY Flushed
<1>3. ASSUME err' # "error"
      PROVE  /\ lost' = {} /\ (err' = "EOF" <=> pos = Len(tar))
             /\ \A e \in 1..Len(tar) : (e <= pos => Done(e)') /\ (e > pos => Untouched(e)')
  <2>1. /\ err' = err /\ Around /\ EOFInv /\ lost' = {}
        /\ file'[pos] = Content(pos)
        /\ copy'[pos] = IF IsBoot(pos) THEN Content(pos) ELSE <<>>
        /\ \A e \in 1..Len(tar) : e # pos => file'[e] = file[e] /\ copy'[e] = copy[e]
    BY <1>3, Flushed
  <2>2. ASSUME NEW e \in 1..Len(tar), e <= pos PROVE Done(e)'
    <3>1. CASE e = pos
      BY <1>1, <2>1, <3>1 DEF Done, Content, IsBoot
    <3>2. CASE e # pos
      <4>1. Done(e)
        BY <1>1, <2>1, <2>2, <3>2 DEF Around
      <4> QED
        BY <1>1, <2>1, <3>2, <4>1 DEF Done, Content, IsBoot
    <3> QED
      BY <3>1, <3>2
  <2>3. ASSUME NEW e \in 1..Len(tar), e > pos PROVE Untouched(e)'
    BY <1>1, <2>1, <2>3 DEF Around, Untouched
  <2> QED
    BY <2>1, <2>2, <2>3 DEF EOFInv
<1>4. CASE IsBoot(pos)
  <2>1. pc' = "close" /\ pos' = pos
    BY <1>4 DEF Flush, Goto
  <2>2. StreamType'
    BY <1>1, <1>2, <2>1 DEF StreamType
  <2>3. IsBoot(pos)'
    BY <1>1, <1>4, <2>1 DEF IsBoot
  <2>4. ASSUME err' # "error" PROVE Around' /\ Done(pos)' /\ EOFInv'
    <3>1. \A e \in 1..Len(tar) : (e <= pos => Done(e)') /\ (e > pos => Untouched(e)')
      BY <1>3, <2>4
    <3>2. Around'
      BY <1>1, <1>3, <2>1, <2>4, <3>1 DEF Around
    <3>3. Done(pos)'
      BY <1>1, <2>1, <3>1 DEF Done, Content, IsBoot
    <3> QED
      BY <1>1, <1>3, <2>1, <2>4, <3>2, <3>3 DEF EOFInv
  <2> QED
    BY <1>1, <2>1, <2>2, <2>3, <2>4
    DEF StreamInv, NextInv, EntryInv, CopyInv, FlushInv, CloseInv, EndInv
<1>5. CASE ~IsBoot(pos)
  <2>1. Return(err')
    BY <1>5 DEF Flush
  <2> QED
    BY <1>1, <1>2, <1>3, <2>1, ReturnStep DEF StreamType
<1> QED
  BY <1>4, <1>5

\* The error of Close is lost only behind io.EOF.
LEMMA CloseCopyStep ==
    ASSUME StreamInv, CloseCopy
    PROVE  StreamInv'
<1>1. /\ StreamType /\ pos \in 1..Len(tar) /\ pos \in Nat /\ IsBoot(pos)
      /\ UNCHANGED <<tar, read, buf, file, copy>> /\ Return(err')
      /\ err # "error" => Around /\ Done(pos) /\ EOFInv
  BY DEF CloseCopy, StreamInv, StreamType, CloseInv
<1>2. err' \in {"nil", "EOF", "error"} /\ (err' # "error" => err' = err)
  BY <1>1 DEF CloseCopy, CloseError, StreamType
<1>3. ASSUME err' # "error"
      PROVE  /\ err' = "EOF" <=> pos = Len(tar)
             /\ lost' # {} => err' = "EOF" /\ lost' = {"close"} /\ IsBoot(pos)
             /\ \A e \in 1..Len(tar) : (e <= pos => Done(e)') /\ (e > pos => Untouched(e)')
  <2>1. err' = err /\ Around /\ Done(pos) /\ (err = "EOF" <=> pos = Len(tar)) /\ lost = {}
    BY <1>1, <1>2, <1>3 DEF EOFInv, Around
  <2>2. lost' # {} => err' = "EOF" /\ lost' = {"close"}
    BY <1>1, <1>3, <2>1 DEF CloseCopy, CloseError, StreamType
  <2>3. ASSUME NEW e \in 1..Len(tar), e <= pos PROVE Done(e)
    BY <1>1, <2>1, <2>3 DEF Around
  <2>4. \A e \in 1..Len(tar) : (e <= pos => Done(e)') /\ (e > pos => Untouched(e)')
    BY <1>1, <2>1, <2>3 DEF Around, Done, Untouched, Content, IsBoot
  <2> QED
    BY <1>1, <2>1, <2>2, <2>4
<1> QED
  BY <1>1, <1>2, <1>3, ReturnStep DEF StreamType

LEMMA SetReaderStep ==
    ASSUME StreamInv, SetReader
    PROVE  StreamInv'
<1>1. tar' \in Seq(TarEntries) /\ Len(tar') \in Nat
  BY TarsAssumption DEF SetReader
<1>2. <<>> \in Seq(Chunks)
  OBVIOUS
<1>3. buf' \in [data : Seq(Chunks), copies : SUBSET Nat, broken : BOOLEAN]
  BY <1>2 DEF SetReader, StreamInv, StreamType, Fresh
<1>4. StreamType' /\ pc' = "next"
  BY <1>1, <1>2, <1>3 DEF SetReader, StreamType, Empty, Goto
<1>5. NextInv'
  BY <1>1 DEF SetReader, NextInv, Around, Untouched, Empty
<1> QED
  BY <1>4, <1>5 DEF StreamInv, EntryInv, CopyInv, FlushInv, CloseInv, EndInv

LEMMA NextStream == StreamInv /\ [Next]_vars => StreamInv'
<1> SUFFICES ASSUME StreamInv, [Next]_vars PROVE StreamInv'
  OBVIOUS
<1>1. CASE UNCHANGED vars
  BY <1>1 DEF vars, StreamInv, StreamType, NextInv, EntryInv, CopyInv, FlushInv, CloseInv,
              EndInv, Around, Done, Untouched, UnderWay, EOFInv, Content, IsBoot
<1> QED
  BY <1>1, AskNextStep, BeginEntryStep, CopyChunkStep, EndOfEntryStep, FlushStep,
     CloseCopyStep, SetReaderStep DEF Next

LEMMA StreamInvariant == Spec => []StreamInv
BY InitStream, NextStream, PTL DEF Spec

-----------------------------------------------------------------------------
(* The theorems. *)

\* For every tar and every size of the buffer, and whichever calls fail when: what Unpack
\* takes for the end of the tar comes after every entry has reached the layer writer, and
\* every boot file its backup copy, whole and in order.
THEOREM EOFMeansWhole == Spec => []CopiesWhole
<1>1. StreamInv => CopiesWhole
  BY DEF StreamInv, EndInv, Done, CopiesWhole
<1> QED
  BY <1>1, StreamInvariant, PTL

\* For every tar and every size of the buffer: the one failure of the streamer that Unpack
\* never learns of is that of closing the backup copy of the last entry.
THEOREM OnlyLastCloseIsLost == Spec => []FailuresReported
<1>1. StreamInv => FailuresReported
  BY DEF StreamInv, EndInv, FailuresReported
<1> QED
  BY <1>1, StreamInvariant, PTL
=============================================================================
