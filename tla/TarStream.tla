------------------------------ MODULE TarStream -------------------------------
(***************************************************************************)
(* The tar streamer: how the content of a tar entry gets through the       *)
(* streamer's one bufio.Writer into the layer writer and, for the boot     *)
(* files that Windows changes later on, into a backup copy as well.  The   *)
(* loop of Unpack around it is LayerStore's; here it only goes from entry  *)
(* to entry and stops at the first error.                                  *)
(*                                                                         *)
(* Content is a sequence of chunks; the alternate data streams of a file   *)
(* are further chunks of it.  A link or a tombstone has none and does not  *)
(* go through the streamer.  Any call may fail at any time.                *)
(***************************************************************************)
EXTENDS Naturals, Sequences

CONSTANTS
    Tars,    \* the tars that may be unpacked: sequences of [kind, chunks]
    Cap      \* chunks the buffer holds

TarEntries == [kind : {"file", "boot"}, chunks : Nat] \cup [kind : {"link"}, chunks : {0}]

ASSUME TarsAssumption == Tars \subseteq Seq(TarEntries)
ASSUME CapAssumption == Cap \in Nat \ {0}

VARIABLES
    tar,     \* the tar behind the reader
    pos,     \* the entry whose header Unpack holds; 0 for none
    read,    \* chunks of it that were read
    buf,     \* the bufio.Writer: data, the copies it writes besides the layer, error
    file,    \* file[e]: what the layer writer was given for entry e
    copy,    \* copy[e]: what the backup copy of entry e holds
    err,     \* the result err of WriteBackupStreamFromTarFile
    lost,    \* the calls that failed since the tar was opened
    pc

vars == <<tar, pos, read, buf, file, copy, err, lost, pc>>

Content(e) == [n \in 1..tar[e].chunks |-> <<e, n>>]

\* mutatedFiles has the name of the entry.
IsBoot(e) == tar[e].kind = "boot"

\* s.buf.Reset
Fresh(copies) == [data |-> <<>>, copies |-> copies, broken |-> FALSE]

Empty(t) == [e \in 1..Len(t) |-> <<>>]

Init ==
    /\ tar \in Tars
    /\ pos = 0 /\ read = 0
    /\ buf = Fresh({})
    /\ file = Empty(tar) /\ copy = Empty(tar)
    /\ err = "nil" /\ lost = {}
    /\ pc = "next"

Goto(at) == pc' = at

\* hdr, err = t.Next(): the next header, io.EOF, or an error.
NextHeader ==
    \/ /\ err' = IF pos < Len(tar) THEN "nil" ELSE "EOF"
       /\ UNCHANGED lost
    \/ err' = "error" /\ lost' = lost \cup {"read"}

\* What Unpack does with the error it is returned.
After == [nil |-> "entry", EOF |-> "eof", error |-> "failed"]

\* WriteBackupStreamFromTarFile, or the first Next, returns e to Unpack.
Return(e) ==
    /\ Goto(After[e])
    /\ pos' = IF e = "nil" THEN pos + 1 ELSE pos

\* Unpack asks for the first header, or for the one after a link or a tombstone.
AskNext ==
    /\ pc = "next" \/ (pc = "entry" /\ tar[pos].kind = "link")
    /\ NextHeader
    /\ Return(err')
    /\ UNCHANGED <<tar, read, buf, file, copy>>

-----------------------------------------------------------------------------
\* A boot file gets a backup copy, and the buffer writes to both; else to the layer only.
BeginEntry ==
    /\ pc = "entry"
    /\ read' = 0
    /\ \/ /\ tar[pos].kind = "file"
          /\ buf' = Fresh({})
          /\ err' = "nil" /\ Goto("copy") /\ UNCHANGED <<pos, copy, lost>>
       \/ /\ IsBoot(pos)
          /\ copy' = [copy EXCEPT ![pos] = <<>>]
          /\ buf' = Fresh({pos})
          /\ err' = "nil" /\ Goto("copy") /\ UNCHANGED <<pos, lost>>
       \/ /\ IsBoot(pos)                                  \* os.Create fails
          /\ lost' = lost \cup {"create"}
          /\ err' = "error" /\ Return("error") /\ UNCHANGED <<buf, copy>>
    /\ UNCHANGED <<tar, file>>

\* The buffer is written out: to the layer writer, then to the copy (io.MultiWriter).
\* A write that fails has written a part, and the buffer fails from then on.
Prefix(s) == {SubSeq(s, 1, n) : n \in 0..(Len(s) - 1)}

Spill(rest) ==
    \/ /\ file' = [file EXCEPT ![pos] = @ \o buf.data]
       /\ copy' = [e \in DOMAIN copy |-> IF e \in buf.copies THEN copy[e] \o buf.data ELSE copy[e]]
       /\ buf' = [buf EXCEPT !.data = rest]
       /\ UNCHANGED lost
    \/ \E part \in Prefix(buf.data) :
          /\ file' = [file EXCEPT ![pos] = @ \o part]
          /\ lost' = lost \cup {"write"}
          /\ buf' = [buf EXCEPT !.broken = TRUE]
          /\ UNCHANGED copy
    \/ \E part \in Prefix(buf.data), e \in buf.copies :
          /\ file' = [file EXCEPT ![pos] = @ \o buf.data]
          /\ copy' = [copy EXCEPT ![e] = @ \o part]
          /\ lost' = lost \cup {"write"}
          /\ buf' = [buf EXCEPT !.broken = TRUE]

\* One chunk read and written to the buffer, which is written out first if it is full.
CopyChunk ==
    LET c == <<pos, read + 1>> IN
    /\ pc = "copy" /\ read < tar[pos].chunks
    /\ read' = read + 1
    /\ IF Len(buf.data) < Cap
         THEN /\ buf' = [buf EXCEPT !.data = Append(@, c)]
              /\ UNCHANGED <<file, copy, lost>>
         ELSE Spill(<<c>>)
    /\ IF buf'.broken THEN err' = "error" /\ Goto("flush") ELSE UNCHANGED <<err, pc>>
    /\ UNCHANGED <<tar, pos>>

\* The content is not readable.
ReadFails ==
    /\ pc = "copy" /\ read < tar[pos].chunks
    /\ lost' = lost \cup {"read"}
    /\ err' = "error" /\ Goto("flush")
    /\ UNCHANGED <<tar, pos, read, buf, file, copy>>

EndOfEntry ==
    /\ pc = "copy" /\ read = tar[pos].chunks
    /\ NextHeader
    /\ Goto("flush")
    /\ UNCHANGED <<tar, pos, read, buf, file, copy>>

-----------------------------------------------------------------------------
(* The deferred calls: Flush, then Close of the backup copy. *)

\* Mutant: an error of Flush is kept only if there was none, and io.EOF counts as one.
FlushError_Kept(e) == IF e = "nil" THEN "error" ELSE e

\* An error of Flush replaces whatever was to be returned.
FlushError(e) == "error"

Flush ==
    /\ pc = "flush"
    /\ \/ /\ ~buf.broken /\ buf.data # <<>>
          /\ Spill(<<>>)
       \/ /\ buf.broken \/ buf.data = <<>>
          /\ UNCHANGED <<buf, file, copy, lost>>
    /\ err' = IF buf'.broken THEN FlushError(err) ELSE err
    /\ IF IsBoot(pos) THEN Goto("close") /\ UNCHANGED pos ELSE Return(err')
    /\ UNCHANGED <<tar, read>>

\* Mutant: the error of Close is not looked at.
CloseError_Dropped(e) == e

\* An error of Close is returned only if there was none, and io.EOF counts as one.
CloseError(e) == IF e = "nil" THEN "error" ELSE e

CloseCopy ==
    /\ pc = "close"
    /\ \/ err' = err /\ UNCHANGED lost
       \/ err' = CloseError(err) /\ lost' = lost \cup {"close"}
    /\ Return(err')
    /\ UNCHANGED <<tar, read, buf, file, copy>>

\* Unpack of the next layer: the same streamer after a success, that of a new process
\* after a failure.
SetReader ==
    /\ pc \in {"eof", "failed"}
    /\ tar' \in Tars
    /\ pos' = 0 /\ read' = 0
    /\ file' = Empty(tar') /\ copy' = Empty(tar')
    /\ buf' = IF pc = "eof" THEN buf ELSE Fresh({})
    /\ err' = "nil" /\ lost' = {}
    /\ Goto("next")

Next ==
    \/ AskNext \/ BeginEntry \/ CopyChunk \/ ReadFails \/ EndOfEntry
    \/ Flush \/ CloseCopy \/ SetReader

Spec == Init /\ [][Next]_vars
-----------------------------------------------------------------------------
(* Properties. *)

\* When Unpack sees io.EOF, every entry of the tar has reached the layer writer whole and
\* in order, every boot file has an identical backup copy, and no other entry has any,
\* although one buffer serves all of them and a failed Flush may come after io.EOF.
CopiesWhole ==
    pc = "eof" => \A e \in 1..Len(tar) :
        file[e] = Content(e) /\ copy[e] = IF IsBoot(e) THEN Content(e) ELSE <<>>

\* The only failure of a stream that Unpack does not learn of is that of closing the
\* backup copy of the tar's last entry: there err is io.EOF already.
FailuresReported ==
    pc = "eof" => lost \subseteq {"close"} /\ (lost # {} => IsBoot(Len(tar)))
=============================================================================
