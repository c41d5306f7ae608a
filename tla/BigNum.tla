------------------------------- MODULE BigNum -------------------------------
(***************************************************************************)
(* The multi-precision layer of src/ecc/ecc.c: little-endian arrays of      *)
(* W-bit words (W = 32 in the code), indexed from 0.  A big number of       *)
(* "len" words is a function 0..len-1 -> 0..Base-1.  The operators below   *)
(* translate the word loops of add, sub, rshiftby, rshift, isGreater,      *)
(* isZero, isOne and isSame; the modules above this one use their integer  *)
(* meaning, which MCFieldMult checks against them.                         *)
(*                                                                          *)
(* L is arrayLength (8 in the code): the width the code hard-codes in      *)
(* rshift, isZero and isOne.                                                *)
(***************************************************************************)
EXTENDS Integers, FiniteSetsExt

CONSTANTS W,    \* bits per word (uint32_t in the code)
          L     \* arrayLength, words per field element

ASSUME W \in Nat \ {0} /\ L \in Nat \ {0}

Base == 2^W

\* The integer denoted by a word array.
Val(a) == MapThenSumSet(LAMBDA i : a[i] * Base^i, DOMAIN a)

\* The word array of length len holding x mod Base^len.
Limbs(x, len) == [i \in 0..len-1 |-> (x \div Base^i) % Base]

Zeros(len) == [i \in 0..len-1 |-> 0]

\* The words of a from index off on: the C expression &a[off].
Suffix(a, off) == [i \in 0..Cardinality(DOMAIN a)-off-1 |-> a[i + off]]

(***************************************************************************)
(* add(x, y, result, length): d accumulates x[v] + y[v] + carry in 64      *)
(* bits, the low word is stored and d >> 32 is the carry into the next     *)
(* word; the final carry is returned.                                      *)
(***************************************************************************)
add(x, y, len) ==
    LET RECURSIVE Loop(_, _, _)
        Loop(v, d, res) ==
            IF v = len THEN [result |-> res, carry |-> d]
            ELSE LET s == d + x[v] + y[v]
                 IN  Loop(v + 1, s \div Base, [res EXCEPT ![v] = s % Base])
    IN Loop(0, 0, Zeros(len))

\* A faulty variant of sub that forgets the incoming borrow.
subNoBorrowIn(x, y, len) ==
    LET RECURSIVE Loop(_, _, _)
        Loop(v, d, res) ==
            IF v = len THEN [result |-> res, borrow |-> d]
            ELSE LET s == x[v] - y[v]
                 IN  Loop(v + 1, IF s < 0 THEN 1 ELSE 0,
                          [res EXCEPT ![v] = s % Base])
    IN Loop(0, 0, Zeros(len))

(***************************************************************************)
(* sub(x, y, result, length): d = x[v] - y[v] - d in uint64_t; the low     *)
(* word is stored and (d >> 32) & 1 is the borrow, which is 1 exactly when *)
(* the 64-bit difference wrapped below zero.                               *)
(***************************************************************************)
sub(x, y, len) ==
    LET RECURSIVE Loop(_, _, _)
        Loop(v, d, res) ==
            IF v = len THEN [result |-> res, borrow |-> d]
            ELSE LET s == x[v] - y[v] - d
                 IN  Loop(v + 1, IF s < 0 THEN 1 ELSE 0,
                          [res EXCEPT ![v] = s % Base])
    IN Loop(0, 0, Zeros(len))

\* rshiftby(in, in_size, out, out_size, shift): shift right by whole words.
rshiftby(in, inSize, outSize, shift) ==
    [i \in 0..outSize-1 |-> IF i < inSize - shift THEN in[i + shift] ELSE 0]

\* rshift(A): one-bit right shift of an arrayLength-word number, the low
\* bit of each word carried into the top bit of the word below.
rshift(a) ==
    [i \in 0..L-1 |-> a[i] \div 2 +
                      (IF i < L - 1 THEN (a[i + 1] % 2) * (Base \div 2) ELSE 0)]

\* isGreater(A, B, length): compares from the most significant word down,
\* returning 1, -1 or 0.
isGreater(a, b, len) ==
    LET RECURSIVE Cmp(_)
        Cmp(i) == IF i < 0 THEN 0
                  ELSE IF a[i] > b[i] THEN 1
                  ELSE IF a[i] < b[i] THEN -1
                  ELSE Cmp(i - 1)
    IN Cmp(len - 1)

isZero(a) == \A i \in 0..L-1 : a[i] = 0

isOne(a) == a[0] = 1 /\ \A i \in 1..L-1 : a[i] = 0

isSame(a, b, len) == \A i \in 0..len-1 : a[i] = b[i]

=============================================================================
