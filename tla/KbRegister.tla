------------------------------ MODULE KbRegister ------------------------------
(***************************************************************************)
(* What the rest of the service may assume about a project's knowledge     *)
(* base: a register per open project that names one knowledge base.  The   *)
(* register of an open project is only ever overwritten when the knowledge *)
(* base it names is gone, and always by a knowledge base no project names. *)
(* Module KnowledgeBase implements this specification.                     *)
(***************************************************************************)
CONSTANTS Projects, KbIds, NoKb

VARIABLES
  open,   \* projects that have not been deleted
  named,  \* named[p]: the knowledge base project p names, or NoKb
  gone    \* knowledge bases the upstream no longer serves

regVars == <<open, named, gone>>

RegInit ==
  /\ open = Projects
  /\ named = [p \in Projects |-> NoKb]
  /\ gone = {}

\* An open project without a usable knowledge base takes one nobody names.
Adopt(p, k) ==
  /\ p \in open
  /\ named[p] \in gone \cup {NoKb}
  /\ \A q \in Projects : named[q] # k
  /\ named' = [named EXCEPT ![p] = k]
  /\ UNCHANGED <<open, gone>>

\* The upstream drops a knowledge base.
Vanish(k) ==
  /\ gone' = gone \cup {k}
  /\ UNCHANGED <<open, named>>

\* A deleted project names nothing any more.
Close(p) ==
  /\ open' = open \ {p}
  /\ named' = [named EXCEPT ![p] = NoKb]
  /\ UNCHANGED gone

RegNext ==
  \/ \E p \in Projects, k \in KbIds : Adopt(p, k)
  \/ \E k \in KbIds : Vanish(k)
  \/ \E p \in Projects : Close(p)

RegSpec == RegInit /\ [][RegNext]_regVars
===============================================================================
