-------------------------------- MODULE Boot --------------------------------
(***************************************************************************)
(* The kernel's initialisation functions (util/init.c): the linker gathers *)
(* them in a section, in the order of the object files, each with the      *)
(* names of the functions it depends on, and init_call_all runs them so    *)
(* that a function runs after those it depends on.                         *)
(*                                                                         *)
(*   deps    the dependencies of each function, as linked (NONE: a name    *)
(*           that no function has);                                        *)
(*   b       if_search and if_called of each function, the search count,   *)
(*           the calls made, and how the machine stopped if it did.        *)
(***************************************************************************)
EXTENDS Integers, Sequences, SequencesExt

CONSTANTS N,      \* the functions of the section are 1 .. N
          Deps    \* the lists of dependencies a function may have

VARIABLES deps, b

Func == 1 .. N
NONE == 0

Panic(s, why) == [s EXCEPT !.panic = IF @ = "" THEN why ELSE @]

\* A depth-first walk; what a search has come to carries its number, whether it
\* is still on the way or has been called.
RECURSIVE init_call(_, _, _)
init_call(d, s, func) ==
    LET visit(st, f) ==
          IF st.panic # "" THEN st
          ELSE IF f \notin Func THEN Panic(st, "dependency does not exist")
          ELSE IF st.search[f] = st.search[func] THEN Panic(st, "circular dependency")
          ELSE IF st.called[f] THEN st
          ELSE init_call(d, [st EXCEPT !.search[f] = st.search[func]], f)
        after == FoldLeft(visit, s, d[func])
    IN IF after.panic # "" THEN after
       ELSE IF after.called[func] THEN Panic(after, "KASSERT(!func->if_called)")
       ELSE [after EXCEPT !.called[func] = TRUE, !.calls = Append(@, func)]

(* Mutant: a function that was called as a dependency is called again.     *)
init_call_all_again(d, s, func) ==
    IF s.panic # "" THEN s
    ELSE init_call(d, [s EXCEPT !.count = @ + 1, !.search[func] = s.count + 1], func)

\* One turn of the loop of init_call_all for each function of the section.
init_call_all(d, s, func) ==
    IF s.panic # "" \/ s.called[func] THEN s
    ELSE init_call(d, [s EXCEPT !.count = @ + 1, !.search[func] = s.count + 1], func)

BootInit ==
    /\ deps \in [Func -> Deps]
    /\ b = [search |-> [f \in Func |-> 0], called |-> [f \in Func |-> FALSE],
            count |-> 0, calls |-> <<>>, panic |-> "", next |-> 1]

BootNext ==
    /\ b.next <= N
    /\ b' = [init_call_all(deps, b, b.next) EXCEPT !.next = @ + 1]
    /\ UNCHANGED deps

BootSpec == BootInit /\ [][BootNext]_<<deps, b>>

-----------------------------------------------------------------------------
(* Properties.                                                             *)

\* f depends on g, in one step or more.
RECURSIVE Needs(_, _, _)
Needs(f, g, k) == \/ g \in ToSet(deps[f])
                  \/ k > 0 /\ \E h \in ToSet(deps[f]) : h \in Func /\ Needs(h, g, k - 1)

\* Two dependencies of one function lead to a third: the marks of the search do
\* not tell this from a cycle.  No function of the kernel has such dependencies.
Shared == \E f, g \in Func : \E i, k \in DOMAIN deps[f] :
             /\ i # k
             /\ \A x \in {i, k} : deps[f][x] = g \/ (deps[f][x] \in Func /\ Needs(deps[f][x], g, N))

\* Whatever the link order, a function runs once and after all it depends on,
\* all of them run, and init_call_all gives up only for a name that does not
\* exist, a cycle, or a dependency that is shared within a search.
InitsInOrder ==
    /\ \A i, k \in DOMAIN b.calls : b.calls[i] = b.calls[k] => i = k
    /\ \A i \in DOMAIN b.calls : \A g \in ToSet(deps[b.calls[i]]) :
         \E k \in 1 .. i - 1 : b.calls[k] = g
    /\ b.next > N /\ b.panic = "" => Len(b.calls) = N
    /\ b.panic = "circular dependency" => Shared \/ \E f \in Func : Needs(f, f, N)
    /\ b.panic = "dependency does not exist" => \E f \in Func : NONE \in ToSet(deps[f])
    /\ b.panic # "KASSERT(!func->if_called)"
=============================================================================
