------------------------------ MODULE KeyOrder ------------------------------
(***************************************************************************)
(* The order in which the LevelDB queue hands its messages out.            *)
(*                                                                         *)
(* Push stores a message under the key "msg:%d" of its index, and          *)
(* getMessageKeys sorts the keys with sort.Strings.  All keys share the    *)
(* prefix "msg:", so the order of two keys is the lexicographic order of   *)
(* the decimal numerals of their indexes, which is not the numeric order:  *)
(* "msg:10" sorts before "msg:9".                                          *)
(*                                                                         *)
(* A key is its index here.  Two numerals of the same length sort as       *)
(* numbers; otherwise the shorter one is compared with as many leading     *)
(* digits of the longer one, and when they agree it is a prefix and comes  *)
(* first.                                                                  *)
(*                                                                         *)
(* The second part of the module is the LevelDB database itself, as far as *)
(* the queue uses it: Put, Delete, and the first of the sorted keys.       *)
(***************************************************************************)
EXTENDS Naturals, Functions

\* The powers of ten up to the first one that an int64 does not reach.
PowerOfTen[d \in 0 .. 19] == IF d = 0 THEN 1 ELSE 10 * PowerOfTen[d - 1]

\* The number of digits %d prints for an index; an int64 has at most 19.
NumDigits(k) ==
    CHOOSE d \in 1 .. 19 :
        k < PowerOfTen[d] /\ (d = 1 \/ PowerOfTen[d - 1] <= k)

\* The first d digits of k.
Leading(k, d) == k \div PowerOfTen[NumDigits(k) - d]

\* Mutant: the keys sorted downwards.
KeyLessReversed(j, k) ==
    LET d == NumDigits(j)
        e == NumDigits(k)
    IN  IF d = e THEN k < j
        ELSE IF d < e THEN Leading(k, d) < j ELSE k <= Leading(j, e)

\* The order of sort.Strings on the keys of the indexes j and k.
KeyLess(j, k) ==
    LET d == NumDigits(j)
        e == NumDigits(k)
    IN  IF d = e THEN j < k
        ELSE IF d < e THEN j <= Leading(k, d) ELSE Leading(j, e) < k

-----------------------------------------------------------------------------
(***************************************************************************)
(* What KeyLess stands for: the numerals themselves, as FormatInt prints   *)
(* them, and the order of strings.                                         *)
(***************************************************************************)

Numeral(k) == [i \in 1 .. NumDigits(k) |-> Leading(k, i) % 10]

\* At the first place where s and t differ, s has ended or has the smaller
\* digit.
LexLess(s, t) ==
    \E i \in DOMAIN t :
        /\ \A h \in 1 .. i - 1 : h \in DOMAIN s /\ s[h] = t[h]
        /\ i \in DOMAIN s => s[i] < t[i]

-----------------------------------------------------------------------------
(***************************************************************************)
(* A store is a function from the indexes present to messages.             *)
(***************************************************************************)

Put(store, k, m) ==
    [i \in DOMAIN store \cup {k} |-> IF i = k THEN m ELSE store[i]]

Delete(store, k) == [i \in DOMAIN store \ {k} |-> store[i]]

\* k is keys[0] of the sorted getMessageKeys.
IsFirst(store, k) ==
    /\ k \in DOMAIN store
    /\ \A j \in DOMAIN store : ~ KeyLess(j, k)

=============================================================================
