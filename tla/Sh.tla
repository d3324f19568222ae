--------------------------------- MODULE Sh ---------------------------------
(***************************************************************************)
(* The shell (user/bin/sh.c): what one command line does to the shell's     *)
(* descriptors, children, mappings and temporary files, and which files the *)
(* command it runs gets as its standard streams.                            *)
(*                                                                          *)
(* An operation takes the state c of the process to the SET of its outcomes *)
(* [c, r]: every system call may fail.                                      *)
(*   c.fd[n]   what descriptor n is open on, or CLOSED;                     *)
(*   c.kids    children not waited for;   c.maps   mappings;                *)
(*   c.grown   the break was left raised; c.tmp    a temporary file is left;*)
(*   c.leaks   a path of the code was taken that leaves something behind;   *)
(*   c.std     what streams 0, 1, 2 of the last command were, for one that  *)
(*             uses its ioenv or was executed; c.extra its other files.     *)
(* The words of a command and what the files hold are left out.             *)
(***************************************************************************)
EXTENDS Integers, Sequences, FiniteSets, SequencesExt, FiniteSetsExt

CONSTANT NFILES

Fd     == 0 .. NFILES - 1
Std    == 0 .. 2
CLOSED == "closed"
NoStd  == [d \in Std |-> CLOSED]

R(c, r) == [c |-> c, r |-> r]
Then(S, F(_)) == UNION {F(o) : o \in S}
Leaks(c) == [c EXCEPT !.leaks = TRUE]

FreeFds(c) == {n \in Fd : c.fd[n] = CLOSED}

open(c, what) ==
    {R(c, -1)} \cup (IF FreeFds(c) = {} THEN {}
                     ELSE {R([c EXCEPT !.fd[Min(FreeFds(c))] = what], Min(FreeFds(c)))})

close(c, n) == [c EXCEPT !.fd[n] = CLOSED]

dup(c, n) ==
    IF n \notin Fd \/ FreeFds(c) = {} THEN {R(c, -1)}
    ELSE IF c.fd[n] = CLOSED THEN {R(c, -1)}
    ELSE {R([c EXCEPT !.fd[Min(FreeFds(c))] = c.fd[n]], Min(FreeFds(c)))}

\* An operation that only succeeds or fails.
Try(c) == {R(c, 0), R(c, -1)}

-----------------------------------------------------------------------------
(* Redirections.  One is [kind, dfd, src]: a file to open ("file", named    *)
(* src) or a descriptor to duplicate ("dup", number src).                   *)

add_redirect(map, sfd, dfd) == Append(map, [sfd |-> sfd, dfd |-> dfd])

parse_redirect_norm(c, what) == open(c, what)
parse_redirect_dup(c, sfd)   == dup(c, sfd)

\* From left to right; the descriptors of those before one that fails stay
\* open.  An outcome is [c, r, map].
RECURSIVE parse_redirects(_, _, _)
parse_redirects(c, reds, map) ==
    IF reds = <<>> THEN {[c |-> c, r |-> 0, map |-> map]}
    ELSE LET red == Head(reds)
             S == IF red.kind = "dup" THEN parse_redirect_dup(c, red.src)
                  ELSE parse_redirect_norm(c, red.src)
         IN Then(S, LAMBDA o :
              IF o.r < 0
                THEN {[c |-> IF map = <<>> THEN o.c ELSE Leaks(o.c), r |-> -1, map |-> map]}
                ELSE parse_redirects(o.c, Tail(reds), add_redirect(map, o.r, red.dfd)))

\* The child: dup2 to the destination, which closes what was there, then close
\* the source.
do_redirect(fd, map) ==
    FoldLeft(LAMBDA f, m : [[f EXCEPT ![m.dfd] = f[m.sfd]] EXCEPT ![m.sfd] = CLOSED],
             fd, map)

(* Mutant: only the first of the descriptors is closed.                    *)
cleanup_first(c, map) == IF map = <<>> THEN c ELSE close(c, map[1].sfd)

cleanup_redirects(c, map) == FoldLeft(LAMBDA d, m : close(d, m.sfd), c, map)

\* The descriptor a builtin uses for each standard stream.
build_ioenv(map) ==
    FoldLeft(LAMBDA io, m : IF m.dfd \in Std THEN [io EXCEPT ![m.dfd] = m.sfd] ELSE io,
             [d \in Std |-> d], map)

-----------------------------------------------------------------------------
(* Builtins.                                                               *)

\* do_cp reads and writes until one fails.
do_cp(c) == Try(c)

Streams(c, io) == [c EXCEPT !.std = [d \in Std |-> c.fd[io[d]]], !.extra = {}]

\* The source stays open when the destination cannot be opened.
cmd_cp(c) ==
    Then(open(c, "file"), LAMBDA s :
      IF s.r < 0 THEN {s}
      ELSE Then(open(s.c, "file"), LAMBDA d :
        IF d.r < 0 THEN {R(Leaks(d.c), 1)}
        ELSE Then(do_cp(d.c), LAMBDA o : {R(close(close(o.c, s.r), d.r), o.r)})))

\* With no argument the standard input; otherwise each file in turn.
cmd_cat(c, io) ==
    do_cp(Streams(c, io)) \cup
    Then(open(Streams(c, io), "file"), LAMBDA f :
      IF f.r < 0 THEN {f} ELSE {R(close(o.c, f.r), o.r) : o \in do_cp(f.c)})

\* mv, rm, ln, mkdir, rmdir, cd, sync, env, echo, clear, help: one call each,
\* or none; they print to the shell's own streams.
cmd_simple(c) == Try(c)

\* A check of a temporary file begins by opening it, to see that it is new.
check_exists(c) == Then(open(c, "file"), LAMBDA o :
    IF o.r < 0 THEN {R(o.c, 0)} ELSE {R(close(o.c, o.r), 1)})

\* A temporary file is made, used, closed and unlinked at the end.
WithTmp(c, Body(_)) ==
    Then(check_exists(c), LAMBDA e :
      IF e.r = 1 THEN {e}
      ELSE Then(open(e.c, "file"), LAMBDA f :
        IF f.r < 0 THEN {f}
        ELSE Then(Body([f.c EXCEPT !.tmp = TRUE]), LAMBDA b :
          Then(Try(close(b.c, f.r)), LAMBDA u :
            {IF u.r = 0 THEN R([u.c EXCEPT !.tmp = FALSE], b.r) ELSE R(Leaks(u.c), 1)}))))

\* mmap, then what is done to the mapping, then munmap in any case.
Mapped(c) ==
    Then(Try(c), LAMBDA m :
      IF m.r < 0 THEN {m}
      ELSE Then(Try([m.c EXCEPT !.maps = @ + 1]), LAMBDA b :
        Then(Try(b.c), LAMBDA u :
          {IF u.r = 0 THEN R([u.c EXCEPT !.maps = @ - 1], b.r) ELSE R(Leaks(u.c), 1)})))

\* Steps that may fail, then the mapping.
TryThen(c, F(_)) == Then(Try(c), LAMBDA o : IF o.r < 0 THEN {o} ELSE F(o.c))

cmd_chk_priv(c)   == WithTmp(c, LAMBDA d : TryThen(d, Mapped))
cmd_chk_sparse(c) == WithTmp(c, LAMBDA d : TryThen(d, Mapped))

\* A device is opened, used (a mapping of it too) and closed.
OnDevice(c, Body(_)) ==
    Then(open(c, "file"), LAMBDA f :
      IF f.r < 0 THEN {f} ELSE {R(close(b.c, f.r), b.r) : b \in Body(f.c)})

cmd_chk_null(c) == OnDevice(c, Try)
cmd_chk_zero(c) == OnDevice(c, LAMBDA d : TryThen(d, Mapped))

\* The file is unlinked while it is open.  When it can be opened again all the
\* same, that descriptor is not closed.
Unlinked(c, Body(_)) ==
    Then(check_exists(c), LAMBDA e :
      IF e.r = 1 THEN {e}
      ELSE Then(open(e.c, "file"), LAMBDA f :
        IF f.r < 0 THEN {f}
        ELSE Then(Try(f.c), LAMBDA u :
          IF u.r < 0 THEN {R(Leaks([close(u.c, f.r) EXCEPT !.tmp = TRUE]), 1)}
          ELSE Then(open(u.c, "file"), LAMBDA n :
            IF n.r >= 0 THEN {R(Leaks(close(n.c, f.r)), 1)}
            ELSE {R(close(b.c, f.r), b.r) : b \in Body(n.c)}))))

cmd_chk_unlink(c)  == Unlinked(c, LAMBDA d : {R(d, 0)})
cmd_chk_wrnoent(c) == Unlinked(c, Try)

\* What was allocated is freed whether or not it held what was written.
cmd_chk_malloc(c) == Try(c)
\* The break goes down again unless a word does not read back, or sbrk fails.
cmd_chk_sbrk(c) ==
    Then(Try(c), LAMBDA s :
      IF s.r < 0 THEN {s}
      ELSE Then(Try([s.c EXCEPT !.grown = TRUE]), LAMBDA v :
        IF v.r < 0 THEN {R(Leaks(v.c), 1)}
        ELSE Then(Try(v.c), LAMBDA d :
          {IF d.r < 0 THEN R(Leaks(d.c), 1) ELSE R([d.c EXCEPT !.grown = FALSE], 0)})))

cmd_check(c) ==
    UNION {cmd_chk_priv(c), cmd_chk_sparse(c), cmd_chk_null(c), cmd_chk_zero(c),
           cmd_chk_unlink(c), cmd_chk_wrnoent(c), cmd_chk_malloc(c), cmd_chk_sbrk(c)}

-----------------------------------------------------------------------------
(* Running a command.                                                      *)

wait(c) == [c EXCEPT !.kids = IF @ > 0 THEN @ - 1 ELSE 0]

\* A command that is no builtin: the child redirects and executes it; the
\* shell closes its copies and waits, also when there is no child.
RunChild(c, map) ==
    LET f == do_redirect(c.fd, map)
        d == [c EXCEPT !.kids = @ + 1, !.std = [x \in Std |-> f[x]],
                       !.extra = {f[x] : x \in Fd \ Std} \ {CLOSED}]
    IN {R(wait(cleanup_redirects(c, map)), -1), R(wait(cleanup_redirects(d, map)), 0)}

\* The three duplicates repeat and parallel hand on; those made before one
\* that fails stay open.
RECURSIVE DupStreams(_, _, _, _)
DupStreams(c, io, d, map) ==
    IF d = 3 THEN {[c |-> c, r |-> 0, map |-> map]}
    ELSE Then(dup(c, io[d]), LAMBDA o :
           IF o.r < 0
             THEN {[c |-> IF d = 0 THEN o.c ELSE Leaks(o.c), r |-> -1, map |-> map]}
             ELSE DupStreams(o.c, io, d + 1, add_redirect(map, o.r, d)))

\* The simple commands, with the map they are given.
execute(c, cmd, map) ==
    LET io == build_ioenv(map)
        Clean(S) == {R(cleanup_redirects(o.c, map), 0) : o \in S}
    IN CASE cmd = "cp"     -> Clean(cmd_cp(c))
         [] cmd = "cat"    -> Clean(cmd_cat(c, io))
         [] cmd = "check"  -> Clean(cmd_check(c))
         [] cmd = "simple" -> Clean(cmd_simple(c))
         [] OTHER          -> RunChild(c, map)

\* n times the command, each with fresh duplicates of repeat's own streams.
RECURSIVE Repeat(_, _, _, _)
Repeat(c, io, cmd, n) ==
    IF n = 0 THEN {R(c, 0)}
    ELSE Then(DupStreams(c, io, 0, <<>>), LAMBDA m :
           IF m.r < 0 THEN {R(m.c, 1)}
           ELSE Then(execute(m.c, cmd, m.map), LAMBDA o : Repeat(o.c, io, cmd, n - 1)))

cmd_repeat(c, io, cmd, n) == Repeat(c, io, cmd, n)

\* A child for each command; fork may fail; as many waits as commands.  A child
\* has its own descriptors, so only what it gives its command is kept.
RECURSIVE Fork(_, _, _, _)
Fork(c, io, cmd, n) ==
    IF n = 0 THEN {R(c, 0)}
    ELSE Then({R(c, -1)} \cup
              Then(DupStreams(c, io, 0, <<>>), LAMBDA m :
                {R([c EXCEPT !.kids = @ + 1, !.std = o.c.std, !.extra = o.c.extra], 0) :
                    o \in IF m.r < 0 THEN {R(c, 1)} ELSE execute(m.c, cmd, m.map)}),
              LAMBDA k : Fork(k.c, io, cmd, n - 1))

cmd_parallel(c, io, cmd, n) ==
    {R([o.c EXCEPT !.kids = Max({@ - n, 0})], o.r) : o \in Fork(c, io, cmd, n)}

\* A whole line: [reds, cmd, n, sub].  Nothing is run, and nothing closed,
\* when a redirection fails or there is no word left.
parse(c, line) ==
    Then(parse_redirects(c, line.reds, <<>>), LAMBDA m :
      LET io == build_ioenv(m.map)
          Clean(S) == {R(cleanup_redirects(o.c, m.map), 0) : o \in S}
      IN IF m.r < 0 THEN {R(m.c, -1)}
         ELSE IF line.cmd = "none"
           THEN {R(IF m.map = <<>> THEN m.c ELSE Leaks(m.c), 0)}
         ELSE IF line.cmd = "repeat"
           THEN Clean(cmd_repeat(m.c, io, line.sub, line.n))
         ELSE IF line.cmd = "parallel"
           THEN Clean(cmd_parallel(m.c, io, line.sub, line.n))
         ELSE execute(m.c, line.cmd, m.map))

-----------------------------------------------------------------------------
(* A session of command lines.                                             *)

CONSTANTS Redirect,  \* the redirections a line may have
          MaxReds    \* bound: how many

VARIABLES sh, last   \* the shell's state; the line it ran last

Simple == {"cp", "cat", "check", "simple", "external"}
Lines(cmds, subs) == [reds : SeqOf(Redirect, MaxReds), cmd : cmds, sub : subs, n : {2}]
LineOf == Lines(Simple \cup {"none"}, {"cat"})
          \cup Lines({"repeat", "parallel"}, {"cat", "external"})

Start == [n \in Fd |-> IF n \in Std THEN "tty" ELSE CLOSED]

ShInit ==
    /\ sh = [fd |-> Start, kids |-> 0, maps |-> 0, grown |-> FALSE, tmp |-> FALSE,
             leaks |-> FALSE, std |-> NoStd, extra |-> {}]
    /\ last = [reds |-> <<>>, cmd |-> "none", sub |-> "cat", n |-> 2]

\* What a session does after something was left behind is not followed.
Command(line) ==
    /\ ~ sh.leaks
    /\ \E o \in parse([sh EXCEPT !.std = NoStd, !.extra = {}], line) : sh' = o.c
    /\ last' = line

ShNext == \E line \in LineOf : Command(line)
ShSpec == ShInit /\ [][ShNext]_<<sh, last>>

-----------------------------------------------------------------------------
(* Properties.                                                             *)

\* After a line the shell has the descriptors it began with, on the same
\* files, no child, no mapping, no raised break and no temporary file,
\* whichever calls failed: except after the paths the code does not clean up
\* (a failed redirection after a good one, redirections without a command, cp
\* without its destination, a check that failed).
LinesLeaveNothing ==
    ~ sh.leaks => /\ sh.fd = Start /\ sh.kids = 0 /\ sh.maps = 0
                  /\ ~ sh.grown /\ ~ sh.tmp

\* What stream d of a command should be: the last redirection of d, a
\* descriptor meaning the shell's own.
Wanted(reds, d) ==
    LET of == {i \in DOMAIN reds : reds[i].dfd = d}
    IN IF of = {} THEN "tty"
       ELSE IF reds[Max(of)].kind = "dup" THEN "tty" ELSE reds[Max(of)].src

\* A command that is executed, and cat, has its redirections in effect, the
\* last one of a stream winning: through dup, fork, dup2 and close, and when
\* repeat or parallel ran it.  A command the shell runs itself inherits no
\* other file.  For redirections of the standard streams only.
RedirectionsTakeEffect ==
    sh.std # NoStd /\ (\A i \in DOMAIN last.reds : last.reds[i].dfd \in Std) =>
      /\ \A d \in Std : sh.std[d] = Wanted(last.reds, d)
      /\ last.cmd = "external" => sh.extra = {}
=============================================================================
