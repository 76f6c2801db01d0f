---------------------------- MODULE MCPlayground ----------------------------
(* Instances of Playground for TLC: the pages and what programs report.    *)
EXTENDS Playground

Main == [main |-> TRUE, storage |-> "works", source |-> File,
         debounced |-> TRUE, autorun |-> TRUE]

MainPage == {Main}

(* The main page without a file, where programs report most. *)
NoFile == [Main EXCEPT !.source = None]

(* A demo, where the debounce was set to no number. *)
Demo == [NoFile EXCEPT !.main = FALSE, !.debounced = FALSE]

AllPages == {Main, NoFile, Demo}

AllReports == [p \in AllPages |-> IF p = NoFile THEN 2 ELSE 1]

NoReports == [p \in MainPage |-> 0]

NoValue == {}

(* A value, and a tuple with one part. *)
TwoValues == {[type |-> "String", data |-> None],
              [type |-> "Tuple", data |-> {"a"}]}
=============================================================================
