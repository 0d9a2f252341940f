---------------------------- MODULE SpecRegistry ----------------------------
(***************************************************************************)
(* get_spec of ci-core/src/specs/mod.rs: a table of language               *)
(* specifications that is built on first use and published through a       *)
(* OnceLock.  The test for the table and its publication are two steps, so *)
(* several threads may build it; set keeps the first.                      *)
(*                                                                         *)
(* A table is the set of the languages in it.  The specifications compiled *)
(* in are sorted, so that the assertion of check_sorted does not fail.     *)
(***************************************************************************)
EXTENDS LanguageSpec

CONSTANTS
  Threads,
  NotSet       \* OnceLock::new()

VARIABLES
  call,    \* what each thread is in, shared with the callers of other components
  SPECS    \* the OnceLock

Idle == [op |-> "idle"]
Table == SUBSET Languages

Calls ==
  {Idle} \cup [op : {"build"}, lang : Languages, table : Table]
    \cup [op : {"read"}, lang : Languages]
    \cup [op : {"got"}, lang : Languages, found : BOOLEAN]

-----------------------------------------------------------------------------
Init == SPECS = NotSet

\* SPECS.get().is_none()
TestEmpty(t, lang) ==
  /\ call[t] = Idle
  /\ SPECS = NotSet
  /\ call' = [call EXCEPT ![t] = [op |-> "build", lang |-> lang, table |-> {}]]
  /\ UNCHANGED SPECS

TestFilled(t, lang) ==
  /\ call[t] = Idle
  /\ SPECS # NotSet
  /\ call' = [call EXCEPT ![t] = [op |-> "read", lang |-> lang]]
  /\ UNCHANGED SPECS

\* m.insert and check_sorted, in an order nobody observes.
Insert(t) ==
  /\ call[t].op = "build"
  /\ LET missing == Registered \ call[t].table IN
     /\ missing # {}
     /\ LET lang == CHOOSE l \in missing : TRUE IN
        call' = [call EXCEPT ![t].table = @ \cup {lang}]
  /\ UNCHANGED SPECS

\* Variant of Publish: before the table is complete.
PublishEarly(t) ==
  /\ call[t].op = "build"
  /\ SPECS' = IF SPECS = NotSet THEN call[t].table ELSE SPECS
  /\ call' = [call EXCEPT ![t] = [op |-> "read", lang |-> call[t].lang]]

\* SPECS.set(m).ok(): a second table is dropped.
Publish(t) ==
  /\ call[t].op = "build"
  /\ call[t].table = Registered
  /\ SPECS' = IF SPECS = NotSet THEN call[t].table ELSE SPECS
  /\ call' = [call EXCEPT ![t] = [op |-> "read", lang |-> call[t].lang]]

\* SPECS.get().and_then(...)
Read(t) ==
  /\ call[t].op = "read"
  /\ call' = [call EXCEPT ![t] =
       [op |-> "got", lang |-> call[t].lang,
        found |-> SPECS # NotSet /\ call[t].lang \in SPECS]]
  /\ UNCHANGED SPECS

\* get_spec returns to its caller.
Return(t) ==
  /\ call[t].op = "got"
  /\ call' = [call EXCEPT ![t] = Idle]
  /\ UNCHANGED SPECS

Next(lang) ==
  \E t \in Threads :
    TestEmpty(t, lang) \/ TestFilled(t, lang) \/ Insert(t) \/ Publish(t) \/ Read(t) \/ Return(t)

-----------------------------------------------------------------------------
TypeOK == SPECS \in Table \cup {NotSet}

(* "Returns the declarative spec for `lang`, or `None` if unsupported"      *)
(* (specs/mod.rs:37), whichever threads found the registry empty and        *)
(* whichever of their tables was kept.                                      *)
SpecsRight ==
  \A t \in Threads : call[t].op = "got" => (call[t].found <=> call[t].lang \in Registered)
=============================================================================
