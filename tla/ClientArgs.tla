----------------------------- MODULE ClientArgs -----------------------------
(***************************************************************************)
(* parseDynamicArgs (cmd/mistry/main.go): the job parameters on the        *)
(* client's command line, each written in one of two forms, "--name=value" *)
(* or "--name value".                                                      *)
(*                                                                         *)
(* What matters of a word is where it has an "=": a word is the sequence   *)
(* of the pieces between them, as strings.Split returns it.  The dashes in *)
(* front of a name are trimmed and left out here.                          *)
(***************************************************************************)
EXTENDS Naturals, Sequences

CONSTANTS
    Names,    \* parameter names, without an "=" in them
    Values,   \* their values, as sequences of pieces
    MaxArgs   \* bound: parameters on a command line

ASSUME ArgsConstants == MaxArgs \in Nat

(* What a user writes: parameters, each in one of the two forms, and maybe *)
(* a last name whose value is missing.                                     *)
Args == [name : Names, value : Values, form : {"assigned", "separate"}]
Trailers == {<<>>} \cup {<< <<k>> >> : k \in Names}

WordsOf(a) ==
    IF a.form = "assigned" THEN << <<a.name>> \o a.value >>
    ELSE << <<a.name>>, a.value >>

VARIABLES
    line,     \* the parameters as the user wrote them
    entered,  \* the command has been entered
    words,    \* the words parseDynamicArgs has yet to read
    parsed    \* its map from names to values

argsVars == <<line, entered, words, parsed>>

ArgsInit == line = <<>> /\ entered = FALSE /\ words = <<>> /\ parsed = <<>>

(* The user writes one parameter after the other and enters the command. *)
Write(a) ==
    /\ ~entered /\ Len(line) < MaxArgs
    /\ line' = Append(line, a)
    /\ words' = words \o WordsOf(a)
    /\ UNCHANGED <<entered, parsed>>

Enter ==
    /\ ~entered
    /\ entered' = TRUE
    /\ \E last \in Trailers : words' = words \o last
    /\ UNCHANGED <<line, parsed>>

(* An assignment to an entry of a map. *)
Assign(map, k, v) == [n \in DOMAIN map \cup {k} |-> IF n = k THEN v ELSE map[n]]

(* A word with an "=": its second piece is the value. *)
Assigned ==
    /\ entered /\ words # <<>>
    /\ Len(Head(words)) > 1
    /\ parsed' = Assign(parsed, Head(words)[1], <<Head(words)[2]>>)
    /\ words' = Tail(words)
    /\ UNCHANGED <<line, entered>>

(* Mutant of Separate: the value is read again as a name. *)
SeparateStepsOne ==
    /\ entered /\ Len(words) > 1
    /\ Len(Head(words)) = 1
    /\ parsed' = Assign(parsed, Head(words)[1], words[2])
    /\ words' = Tail(words)
    /\ UNCHANGED <<line, entered>>

(* A word without one: the next word is the value. *)
Separate ==
    /\ entered /\ Len(words) > 1
    /\ Len(Head(words)) = 1
    /\ parsed' = Assign(parsed, Head(words)[1], words[2])
    /\ words' = Tail(Tail(words))
    /\ UNCHANGED <<line, entered>>

(* The last word, without an "=" and without a next one, is passed over. *)
Trailing ==
    /\ entered /\ Len(words) = 1
    /\ Len(Head(words)) = 1
    /\ words' = <<>>
    /\ UNCHANGED <<line, entered, parsed>>

ArgsNext == (\E a \in Args : Write(a)) \/ Enter \/ Assigned \/ Separate \/ Trailing

-----------------------------------------------------------------------------
(* The reference: a parameter has the last value it was given.  A value    *)
(* with an "=" in it can only be written as a word of its own.             *)
Plain == \A i \in 1..Len(line) : line[i].form = "assigned" => Len(line[i].value) = 1

Meaning ==
    [k \in {line[i].name : i \in 1..Len(line)} |->
        LET i == CHOOSE n \in 1..Len(line) :
                   /\ line[n].name = k
                   /\ \A m \in (n + 1)..Len(line) : line[m].name # k
        IN  line[i].value]

=============================================================================
