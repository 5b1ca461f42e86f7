--------------------------- MODULE ScoreDebugDebug ---------------------------
(***************************************************************************)
(* ScoreDebugDebug<T, MAX_LENGTH>::fmt (src/src/feo/src/debug_fmt.rs):      *)
(* renders a core::fmt::Debug value into a stack buffer of MAX_LENGTH      *)
(* bytes through a std::io::Cursor, with write!(..).expect(..), then hands  *)
(* buf[0..position] to the logger after core::str::from_utf8(..).expect.   *)
(*                                                                         *)
(* write! on an io::Write drives T's Debug impl, which emits its output as *)
(* a sequence of write_str pieces; each piece goes through write_all, a    *)
(* loop of Cursor::write calls, each writing as many bytes as still fit.   *)
(* A write of 0 bytes makes write_all fail with WriteZero, the formatter   *)
(* stops, and the expect panics.                                           *)
(*                                                                         *)
(* Characters are abstracted to their UTF-8 width (module Utf8).          *)
(***************************************************************************)
EXTENDS Naturals, Sequences, SequencesExt, Utf8

CONSTANTS
    MaxLength,  \* MAX_LENGTH, the size of the stack buffer
    Widths,     \* UTF-8 widths of the characters a rendering contains
    MaxPieces,  \* bound on the write_str calls of one Debug rendering
    MaxChars    \* bound on the characters of one piece

ASSUME MaxLength \in Nat /\ Widths \subseteq 1..4

Pieces == UNION {[1..n -> Widths] : n \in 0..MaxChars}
Renderings == UNION {[1..n -> Pieces] : n \in 0..MaxPieces}

VARIABLES
    rendering,  \* what T's Debug impl writes, as its write_str pieces
    pieces,     \* the pieces not yet written
    cur,        \* the bytes write_all still has to write of the piece
    mem,        \* buf[0..writer.position()]
    out,        \* the str passed to f.write_str
    st          \* "fmt", "done", or which expect panicked

vars == <<rendering, pieces, cur, mem, out, st>>

Rendered == FlattenSeq([i \in DOMAIN rendering |-> Encode(rendering[i])])

-----------------------------------------------------------------------------

\* Debug::fmt calls the adapter's write_str with its next piece, which
\* calls write_all on the Cursor.
NextPiece ==
    /\ st = "fmt"
    /\ cur = <<>>
    /\ pieces # <<>>
    /\ cur' = Encode(Head(pieces))
    /\ pieces' = Tail(pieces)
    /\ UNCHANGED <<rendering, mem, out, st>>

\* Bytes a Cursor over a slice of MaxLength bytes still accepts.
Room == MaxLength - Len(mem)

\* Mutant: the position check of the cursor is off by one.
CursorWrite_OffByOne ==
    /\ st = "fmt"
    /\ cur # <<>>
    /\ LET n == IF Len(cur) < Room - 1 THEN Len(cur) ELSE Room - 1
       IN \/ /\ n <= 0
             /\ st' = "panic_write"
             /\ UNCHANGED <<mem, cur>>
          \/ /\ n > 0
             /\ mem' = mem \o SubSeq(cur, 1, n)
             /\ cur' = SubSeq(cur, n + 1, Len(cur))
             /\ UNCHANGED st
    /\ UNCHANGED <<rendering, pieces, out>>

\* Mutant: the write error is ignored (let _ = write!(..)); formatting
\* stops and what was written so far is used.
CursorWrite_IgnoreError ==
    /\ st = "fmt"
    /\ cur # <<>>
    /\ LET n == IF Len(cur) < Room THEN Len(cur) ELSE Room
       IN \/ /\ n = 0
             /\ cur' = <<>>
             /\ pieces' = <<>>
             /\ UNCHANGED <<mem, st>>
          \/ /\ n > 0
             /\ mem' = mem \o SubSeq(cur, 1, n)
             /\ cur' = SubSeq(cur, n + 1, Len(cur))
             /\ UNCHANGED <<st, pieces>>
    /\ UNCHANGED <<rendering, out>>

\* One turn of write_all's loop: Cursor::write copies the bytes that fit
\* and advances the position; Ok(0) ends write_all with WriteZero, and the
\* error reaches write!(..).expect("failed to write Debug").
CursorWrite ==
    /\ st = "fmt"
    /\ cur # <<>>
    /\ LET n == IF Len(cur) < Room THEN Len(cur) ELSE Room
       IN \/ /\ n = 0
             /\ st' = "panic_write"
             /\ UNCHANGED <<mem, cur>>
          \/ /\ n > 0
             /\ mem' = mem \o SubSeq(cur, 1, n)
             /\ cur' = SubSeq(cur, n + 1, Len(cur))
             /\ UNCHANGED st
    /\ UNCHANGED <<rendering, pieces, out>>

\* write! returned Ok: take buf[0..position], from_utf8(..).expect, and
\* pass the str to f.write_str.
Finish ==
    /\ st = "fmt"
    /\ cur = <<>>
    /\ pieces = <<>>
    /\ st' = IF Utf8Valid(mem) THEN "done" ELSE "panic_utf8"
    /\ out' = IF Utf8Valid(mem) THEN mem ELSE out
    /\ UNCHANGED <<rendering, pieces, cur, mem>>

\* A zeroed buffer, a Cursor at position 0, and any value to render.
Init ==
    /\ rendering \in Renderings
    /\ pieces = rendering
    /\ cur = <<>>
    /\ mem = <<>>
    /\ out = <<>>
    /\ st = "fmt"

Next == NextPiece \/ CursorWrite \/ Finish

Spec == Init /\ [][Next]_vars /\ WF_vars(Next)

-----------------------------------------------------------------------------

Ended == st # "fmt"

\* The first expect guards the second: from_utf8 is only reached with the
\* complete rendering, so it never sees a character cut at the end of the
\* buffer and the "not a valid UTF-8 string" expect never fires.
NoUtf8Panic == st # "panic_utf8"

\* The fixed buffer is used exactly: a rendering that fits in MAX_LENGTH
\* bytes, also one that fills it to the last byte, is logged unchanged, and
\* only a longer one panics.
LoggedIffFits ==
    Ended => /\ (st = "done") <=> (Len(Rendered) <= MaxLength)
             /\ st = "done" => out = Rendered

====
