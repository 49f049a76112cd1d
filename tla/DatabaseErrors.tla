---------------------------- MODULE DatabaseErrors ----------------------------
(***************************************************************************)
(* What the repository makes of an error of the database: handle walks     *)
(* through its branches and throws the status of the first that recognises *)
(* the error, by its code or by words of its message.                      *)
(*                                                                         *)
(* A message may hold words of several branches: Postgres quotes names and *)
(* values in it.                                                           *)
(***************************************************************************)
EXTENDS Naturals, Sequences, FiniteSets

\* The branches for a QueryFailedError, in their order.
Branches ==
    << [kind |-> "unique",        status |-> 409], [kind |-> "foreign key", status |-> 409],
       [kind |-> "not null",      status |-> 422], [kind |-> "check",       status |-> 422],
       [kind |-> "integrity",     status |-> 409], [kind |-> "deadlock",    status |-> 408],
       [kind |-> "serialization", status |-> 408], [kind |-> "canceled",    status |-> 408],
       [kind |-> "too many",      status |-> 503], [kind |-> "connection",  status |-> 503],
       [kind |-> "too long",      status |-> 422], [kind |-> "range",       status |-> 422],
       [kind |-> "syntax",        status |-> 422], [kind |-> "schema",      status |-> 500] >>

Kinds == {Branches[i].kind : i \in DOMAIN Branches} \cup {"other"}

\* 23000 has a code and no words, a timeout words and no code.
Worded == (Kinds \ {"integrity", "other"}) \cup {"timeout"}

\* What is thrown, by a query, by the mapper or by the connection, with the kind
\* its code names and the kinds its message mentions.
Errors == [by : {"query", "orm", "connection"}, code : Kinds, words : SUBSET Worded]

Recognises(i, e) == Branches[i].kind = e.code \/ Branches[i].kind \in e.words

\* The default is for what no branch recognises.
QueryStatus(e) ==
    IF \E i \in DOMAIN Branches : Recognises(i, e)
    THEN LET first == CHOOSE i \in DOMAIN Branches :
                          Recognises(i, e) /\ \A j \in 1..(i - 1) : ~Recognises(j, e)
         IN Branches[first].status
    ELSE 500

\* An error without a query goes by its words.
PlainStatus(e) == IF "connection" \in e.words THEN 503
                  ELSE IF e.words \cap {"timeout", "deadlock"} # {} THEN 408 ELSE 500

StatusOf(e) == CASE e.by = "query"      -> QueryStatus(e)
                 [] e.by = "orm"        -> 500
                 [] e.by = "connection" -> PlainStatus(e)
=============================================================================
