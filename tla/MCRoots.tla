------------------------------- MODULE MCRoots -------------------------------
(* Instances of Roots for TLC: the entry forms of a program.                *)
EXTENDS Roots

Form(params, init, ops) == [params |-> params, init |-> init, ops |-> ops]

Values == {"load", "global", "const", "native", "virtual"}
Sharing == {"fiber", "chan", "push", "field"}

\* main() after an init thunk, and main(args) of a program without globals; and
\* main() of a program with fibers.
SafeForms == {Form(0, TRUE, Values), Form(1, FALSE, Values), Form(0, FALSE, Sharing)}

\* main(args) after an init thunk.
ArgsAfterInit == {Form(1, TRUE, {"global"})}

\* A program that loads and pushes, without an init thunk.
Pushes == {Form(0, FALSE, {"load", "push"})}
=============================================================================
