----------------------------- MODULE MCFrontend -----------------------------
(* A small project for Frontend: Rust and Java, which have a grammar and a  *)
(* specification, JavaScript, which has a grammar only, and Toml, which has *)
(* neither.                                                                 *)
EXTENDS Frontend

Named(dot, unicode, extension) == [dot |-> dot, unicode |-> unicode, extension |-> extension]
Dir(dot, unicode) == Named(dot, unicode, "")
File(dirs, name) == [type |-> "file", below |-> Append(dirs, name), name |-> name]

main_rs == Named(FALSE, TRUE, "rs")
hidden_rs == Named(TRUE, TRUE, "rs")

MCEntries == {
  File(<<>>, main_rs),
  File(<<>>, hidden_rs),
  File(<<>>, Named(FALSE, TRUE, "java")),
  File(<<Dir(FALSE, TRUE)>>, Named(FALSE, TRUE, "jsx")),
  File(<<Dir(TRUE, TRUE)>>, main_rs),
  File(<<Dir(TRUE, TRUE), Dir(FALSE, TRUE)>>, Named(FALSE, TRUE, "toml")),
  File(<<Dir(TRUE, FALSE)>>, main_rs),
  File(<<>>, Named(FALSE, FALSE, "rs")),
  File(<<>>, Dir(FALSE, TRUE)),
  [type |-> "file", below |-> <<>>, name |-> hidden_rs],
  [type |-> "other", below |-> <<main_rs>>, name |-> main_rs],
  [type |-> "error", below |-> <<>>, name |-> main_rs]}

=============================================================================
