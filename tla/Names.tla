------------------------------- MODULE Names -------------------------------
(***************************************************************************)
(* The names of xDS resources (resource.go, listener.go) as paths.  A path *)
(* is the sequence of its segments; a segment is a word or, where the code *)
(* formats an index, its sign and digits. Kubernetes names are never empty *)
(* and hold no slash, so joining them adds exactly one segment each.       *)
(***************************************************************************)
EXTENDS Integers, Sequences, Functions

CONSTANTS Nil,    \* an optional field that is not set
          Error,  \* the result of a function that returned an error
          Panic   \* the result of a function that panicked

Failures == {Error, Panic}

(* Indices are no failures. *)
ASSUME FailuresAssumption == Failures \cap Nat = {}

(* if err != nil { return err } *)
Then(result, continue(_)) ==
    IF result \in Failures THEN result ELSE continue(result)

(* The results of a loop that ends at the first failure. *)
Each(results) ==
    IF \A i \in DOMAIN results : results[i] \notin Failures
    THEN results
    ELSE IF \E i \in DOMAIN results :
                results[i] = Panic /\ \A j \in 1..(i - 1) : results[j] # Error
         THEN Panic ELSE Error

(* s[i] of Go, where the first index is 0. *)
At(s, i) == IF i \in 0..(Len(s) - 1) THEN s[i + 1] ELSE Panic

(* These are in SequencesExt too, which also brings the definitions of Bags *)
(* and is too much for the proofs.                                          *)
Front(s) == SubSeq(s, 1, Len(s) - 1)
Last(s) == s[Len(s)]

(* The lists of a list, one after the other. *)
FlattenSeq(seqs) ==
    LET flat[i \in 0..Len(seqs)] == IF i = 0 THEN <<>> ELSE flat[i - 1] \o seqs[i]
    IN  flat[Len(seqs)]

(* The elements that pass the test, in order: SelectSeq, spelled out with *)
(* FlattenSeq because the proofs reason about it.                         *)
Keep(s, Test(_)) == FlattenSeq([i \in DOMAIN s |-> IF Test(s[i]) THEN <<s[i]>> ELSE <<>>])

(* An optional field: nothing to make when it is not set. *)
Optional(field, make(_)) == IF field = Nil THEN Nil ELSE make(field)

Word(w) == [word |-> w]

(* strconv.Itoa and strconv.Atoi *)
Digits[n \in Nat] ==
    IF n < 10 THEN <<n>> ELSE Append(Digits[n \div 10], n % 10)

Itoa(n) ==
    IF n < 0 THEN [sign |-> "-", digits |-> Digits[-n]]
             ELSE [sign |-> "", digits |-> Digits[n]]

Number[s \in Seq(0..9)] ==
    IF s = <<>> THEN 0 ELSE 10 * Number[Front(s)] + Last(s)

(* Mutant: only the last digit read. *)
AtoiLast(segment) ==
    IF "digits" \in DOMAIN segment
    THEN Last(segment.digits)
    ELSE Error

(* A sign is read. *)
Atoi(segment) ==
    IF "digits" \in DOMAIN segment
    THEN IF segment.sign = "-" THEN -Number[segment.digits] ELSE Number[segment.digits]
    ELSE Error

-----------------------------------------------------------------------------
listenerName(namespace, name) == <<Word(namespace), Word(name)>>

(* Everything after the first slash is the name. *)
parseListenerName(path) ==
    IF Len(path) < 2
    THEN Error
    ELSE [namespace |-> path[1], name |-> Tail(path)]

backendName(namespace, name, routeID, backendID) ==
    <<Word(namespace), Word(name), Word("route"), Itoa(routeID),
      Word("backend"), Itoa(backendID)>>

(* The words between the indices are not looked at. *)
parseBackendName(path) ==
    IF Len(path) # 6
    THEN Error
    ELSE Then(Atoi(path[4]), LAMBDA routeID :
         Then(Atoi(path[6]), LAMBDA backendID :
            [namespace |-> path[1].word, listener |-> path[2].word,
             routeID |-> routeID, backendID |-> backendID]))

(* Mutant: the two indices swapped. *)
BackendStringSwapped(ref) ==
    backendName(ref.namespace, ref.listener, ref.backendID, ref.routeID)

(* parsedBackendName.String *)
BackendString(ref) ==
    backendName(ref.namespace, ref.listener, ref.routeID, ref.backendID)
=============================================================================
