----------------------------- MODULE WireFields -----------------------------
(***************************************************************************)
(* A message on the wire is the tuple of integers its struct holds, in     *)
(* wire order (the little-endian bytes themselves are Python's struct      *)
(* module, external).  A message class is its layout: a sequence of        *)
(* fields, each with a name, a width in bits, the values pack writes and   *)
(* the values unpack reads.                                                *)
(***************************************************************************)
EXTENDS Integers, Sequences, FiniteSets, FiniteSetsExt

(* The largest integer of a width.  TLC's integers end at 2^31 - 1, so the *)
(* two widest widths are stood in for by smaller values in the same order. *)
Top(w) == CASE w = 8 -> 255 [] w = 16 -> 65535 [] w = 32 -> 2^29 - 1 [] w = 64 -> 2^30 - 1

Bits(n) == 0 .. 2^n - 1

Field(name, w, writes, reads, kind) == [name |-> name, width |-> w, out |-> writes, in |-> reads, kind |-> kind]

(* A field that takes any integer of its width; one that takes only the    *)
(* members of S (an enum, or the known bits of a mask); one that is        *)
(* written as a constant and must be read as it; one written as 0 and not  *)
(* looked at.                                                              *)
U(name, w)     == Field(name, w, 0 .. Top(w), 0 .. Top(w), "any")
In(name, w, S) == Field(name, w, S, S, "in")
Const(w, v)    == Field("", w, {v}, {v}, "const")
Zero(w)        == Const(w, 0)
Pad(w)         == Field("", w, {0}, 0 .. Top(w), "pad")
Us(w, names)   == [i \in DOMAIN names |-> U(names[i], w)]

(* A signed integer; a field checked only when it is read, and one checked *)
(* only when it is written.                                                *)
Signed(name, w)       == Field(name, w, -(2^(w - 1)) .. 2^(w - 1) - 1, 0 .. Top(w), "signed")
ReadIn(name, w, S)    == Field(name, w, 0 .. Top(w), S, "read")
WrittenIn(name, w, S) == Field(name, w, S, 0 .. Top(w), "written")

(* Two's complement. *)
Word(f, v)  == IF f.kind = "signed" THEN v % 2^f.width ELSE v
Value(f, w) == IF f.kind = "signed" /\ w >= 2^(f.width - 1) THEN w - 2^f.width ELSE w
=============================================================================
