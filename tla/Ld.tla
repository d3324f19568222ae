--------------------------------- MODULE Ld ---------------------------------
(***************************************************************************)
(* The run-time linker (user/lib/ld-weenix): it makes the chain of the     *)
(* libraries a program needs, maps them, relocates them and binds their    *)
(* calls, eagerly or on first use.  The state is one record y:             *)
(*                                                                         *)
(*   y.at      where the linker is: "boot", "load", "mapped", "reloc",     *)
(*             "plt", "run", "done", or "exit" when it gave up;            *)
(*   y.chain   the modules, the executable first (_ldfirst and next);      *)
(*   y.pos     the module of the chain that is next;                       *)
(*   y.names   the names list; y.pool what is left of the memory pool;     *)
(*   y.img     the section that was mapped last, and the memory it is in;  *)
(*   y.sym[m]  how module m defines the variable and the function "v";     *)
(*   y.rel[m]  its relocations;  y.data[m] the pointer it holds, "raw" or  *)
(*             "moved" (a base was added);                                 *)
(*   y.got[m], y.plt[m]  whose "v" its data and call slots are bound to.   *)
(*                                                                         *)
(* An address is the module that it lies in; mmap, open and read are used  *)
(* as their callers expect them to work, and may fail.                     *)
(***************************************************************************)
EXTENDS Integers, Sequences, FiniteSets, SequencesExt, FiniteSetsExt

CONSTANTS Lib,       \* the libraries there are
          Needed,    \* what the DT_NEEDED entries of a module may be
          Section,   \* what a library's program headers may say
          pagesize, POOL, FILE_SIZE

VARIABLES y, needed

Exe  == "exe"
Mod  == {Exe} \cup Lib
NONE == "none"
STUB == "stub"
NoImg == [sec |-> <<>>, mem |-> <<>>]

trunc_page(a) == a - (a % pagesize)
round_page(a) == trunc_page(a + pagesize - 1)

Exits(k) == [k EXCEPT !.at = "exit", !.img = NoImg]

-----------------------------------------------------------------------------
(* Mapping a section [vaddr, off, filesz, memsz] of a library.  Memory is a *)
(* function on addresses; a byte is its place in the file plus 1, or 0.     *)

FileByte(i) == IF i < FILE_SIZE THEN i + 1 ELSE 0

mmap(mem, addr, len, off, zero) ==
    [a \in DOMAIN mem |->
        IF addr <= a /\ a < round_page(addr + len)
          THEN IF zero THEN 0 ELSE FileByte(off + a - addr)
          ELSE mem[a]]

\* Whole pages from the file; from the page of the file's end on zeros, with
\* the bytes of the file on that page read in.
ldmapsect(mem, base, s) ==
    LET vmaddr == s.vaddr + base
        end    == s.off + s.filesz
        file   == trunc_page(s.off)
        len    == (IF s.memsz > s.filesz THEN trunc_page(end) ELSE round_page(end)) - file
        mem1   == IF len = 0 THEN mem ELSE mmap(mem, trunc_page(vmaddr), len, file, FALSE)
        copy   == end - trunc_page(end)
        at     == trunc_page(vmaddr + s.filesz)
        zlen   == round_page(vmaddr + s.memsz) - at
        mem2   == mmap(mem1, at, zlen, 0, TRUE)
    IN IF s.memsz = s.filesz \/ zlen = 0 THEN mem1
       ELSE [a \in DOMAIN mem2 |->
               IF at <= a /\ a < at + copy THEN FileByte(trunc_page(end) + a - at)
               ELSE mem2[a]]

-----------------------------------------------------------------------------
(* The chain.                                                              *)

ldchkname(k, name) == name \in k.names

ldalloc(k, n) == IF k.pool < n THEN Exits(k) ELSE [k EXCEPT !.pool = @ - n]

\* A name entry (made twice) and a module for each library needed, at the end
\* of the chain.  The loop ends at the first that is known already.
RECURSIVE AddNeeded(_, _)
AddNeeded(k, names) ==
    IF names = <<>> \/ k.at = "exit" THEN k
    ELSE IF ldchkname(k, Head(names)) THEN k
    ELSE AddNeeded([ldalloc(k, 3) EXCEPT !.names = @ \cup {Head(names)},
                                         !.chain = Append(@, Head(names))],
                   Tail(names))

(* Mutant: the first library of the list is passed over.                   *)
ldlinkobj_next(k, mod) ==
    IF needed[mod] = <<>> THEN k ELSE AddNeeded(k, Tail(needed[mod]))

ldlinkobj(k, mod) == AddNeeded(k, needed[mod])

-----------------------------------------------------------------------------
(* Symbols.                                                                *)

\* The first module of the chain that defines the name with that binding.
ldsymbol(k, mods, binding) ==
    LET has == SelectSeq(mods, LAMBDA m : k.sym[m] = binding)
    IN IF has = <<>> THEN NONE ELSE Head(has)

\* Global, then weak, then local in the module; exclude skips the module in
\* the first search only.  "w" is defined nowhere.
ldresolve(k, mod, name, exclude) ==
    LET others == SelectSeq(k.chain, LAMBDA m : ~ exclude \/ m # mod)
        global == ldsymbol(k, others, "global")
        weak   == ldsymbol(k, k.chain, "weak")
    IN IF name = "w"      THEN NONE
       ELSE IF global # NONE THEN global
       ELSE IF weak # NONE   THEN weak
       ELSE ldsymbol(k, <<mod>>, "local")

\* The relocations in order; the first whose symbol is not found ends them.  A
\* copy of something that is not found reads address 0.
RECURSIVE ldrelocs(_, _, _)
ldrelocs(k, mod, rels) ==
    IF rels = <<>> THEN k
    ELSE LET r == Head(rels)
             s == ldresolve(k, mod, r.name, r.type = "COPY")
             k1 == CASE r.type = "RELATIVE" -> [k EXCEPT !.data[mod] = "moved"]
                     [] r.type = "COPY"     -> IF s = NONE THEN Exits(k)
                                               ELSE [k EXCEPT !.data[mod] = k.data[s]]
                     [] r.type = "GLOB_DAT" -> [k EXCEPT !.got[mod] = s]
         IN IF r.type = "GLOB_DAT" /\ s = NONE THEN k
            ELSE ldrelocs(k1, mod, Tail(rels))

ldrelocobj(k, mod) == ldrelocs(k, mod, k.rel[mod])
ldrelocplt(k, mod) == [k EXCEPT !.plt[mod] = STUB]
ldbindnow(k, mod)  == [k EXCEPT !.plt[mod] = ldresolve(k, mod, "v", FALSE)]
rtresolve(k, mod)  == [k EXCEPT !.plt[mod] = ldresolve(k, mod, "v", FALSE)]

-----------------------------------------------------------------------------
(* ldstart, module by module.                                              *)

LdInit ==
    /\ needed \in [Mod -> Needed]
    /\ y = [at |-> "boot", chain |-> <<Exe>>, pos |-> 2, names |-> {}, pool |-> POOL,
            img |-> NoImg, sym |-> <<>>, rel |-> <<>>, data |-> <<>>, got |-> <<>>,
            plt |-> <<>>, now |-> FALSE]

\* The linker relocates itself, gets its pool and links the executable.
ldloadrtld ==
    /\ y.at = "boot"
    /\ y' \in {Exits(y), [ldlinkobj(ldalloc(y, 1), Exe) EXCEPT
                             !.at = IF @ = "exit" THEN @ ELSE "load"]}
    /\ UNCHANGED needed

\* The next library is opened and its section mapped; then its needs go on the
\* chain.
ldloadobj ==
    /\ y.at = "load" /\ y.pos <= Len(y.chain)
    /\ \/ y' = Exits(y)
       \/ \E s \in Section :
            LET mem == ldmapsect([a \in 0 .. 6 * pagesize - 1 |-> 0], 2 * pagesize, s)
            IN y' = [y EXCEPT !.at = "mapped", !.img = [sec |-> s, mem |-> mem]]
    /\ UNCHANGED needed

LinkLoaded ==
    /\ y.at = "mapped"
    /\ LET k == ldlinkobj([y EXCEPT !.img = NoImg], y.chain[y.pos])
       IN y' = [k EXCEPT !.pos = @ + 1, !.at = IF @ = "exit" THEN @ ELSE "load"]
    /\ UNCHANGED needed

\* All are loaded: what they define and what they want relocated now counts.
\* The executable copies "v" only if it defines it, and a library.
Relocs == {<<>>, <<[type |-> "RELATIVE", name |-> ""], [type |-> "GLOB_DAT", name |-> "v"]>>,
           <<[type |-> "GLOB_DAT", name |-> "w"], [type |-> "RELATIVE", name |-> ""]>>}
CopyV  == <<[type |-> "COPY", name |-> "v"]>>

Loaded ==
    /\ y.at = "load" /\ y.pos > Len(y.chain)
    /\ \E sym \in [ToSet(y.chain) -> {NONE, "global", "weak", "local"}],
          rel \in [ToSet(y.chain) -> Relocs \cup {CopyV}], now \in BOOLEAN :
        /\ \A m \in ToSet(y.chain) \ {Exe} : rel[m] # CopyV
        /\ rel[Exe] = CopyV =>
             sym[Exe] = "global" /\ \E m \in DOMAIN sym : m # Exe /\ sym[m] = "global"
        /\ y' = [y EXCEPT !.at = "reloc", !.pos = 2, !.names = {}, !.pool = 0, !.sym = sym,
                          !.rel = rel, !.now = now,
                          !.data = [m \in DOMAIN sym |-> "raw"],
                          !.got = [m \in DOMAIN sym |-> NONE],
                          !.plt = [m \in DOMAIN sym |-> NONE]]
    /\ needed' = [m \in Mod |-> <<>>]   \* not looked at again

\* The libraries in the order of the chain, the executable last.
RelocNext ==
    /\ y.at = "reloc"
    /\ y' = IF y.pos <= Len(y.chain)
              THEN [ldrelocobj(y, y.chain[y.pos]) EXCEPT !.pos = @ + 1]
              ELSE LET k == ldrelocobj(y, Exe)
                   IN [k EXCEPT !.at = IF @ = "exit" THEN @ ELSE "plt"]
    /\ UNCHANGED needed

Bind ==
    /\ y.at = "plt"
    /\ LET plt == FoldLeft(ldrelocplt, y, y.chain)
           now == IF y.now THEN FoldLeft(ldbindnow, plt, y.chain) ELSE plt
       IN y' = [now EXCEPT !.at = "run"]
    /\ UNCHANGED needed

\* The program runs: a module calls "v" through its slot.
CallV(m) ==
    /\ y.at = "run" /\ y.plt[m] = STUB
    /\ y' = rtresolve(y, m)
    /\ UNCHANGED needed

ldcleanup ==
    /\ y.at = "run"
    /\ y' = [y EXCEPT !.at = "done"]
    /\ UNCHANGED needed

LdNext == \/ ldloadrtld \/ ldloadobj \/ LinkLoaded \/ Loaded \/ RelocNext \/ Bind \/ ldcleanup
          \/ \E m \in ToSet(y.chain) : CallV(m)
LdSpec == LdInit /\ [][LdNext]_<<y, needed>>

-----------------------------------------------------------------------------
(* Properties.                                                             *)

\* No library is loaded twice, however the libraries need each other, in
\* circles too; and everything a loaded module needs is on the chain, up to the
\* first entry that had been asked for before.
ChainIsComplete ==
    /\ \A i, j \in DOMAIN y.chain : y.chain[i] = y.chain[j] => i = j
    /\ y.at \notin {"boot", "exit"} =>
       \A i \in DOMAIN y.chain : i < y.pos \/ y.at \notin {"load", "mapped"} =>
         LET ns == needed[y.chain[i]]
         IN \A j \in DOMAIN ns :
              (\A l \in 1 .. j : \A h \in 1 .. i - 1 :
                  ns[l] \notin ToSet(needed[y.chain[h]])) => ns[j] \in ToSet(y.chain)

\* A library's section is in memory as its file has it, zeros behind, wherever
\* in a page it begins and ends.
SectionIsMapped ==
    y.img # NoImg =>
      LET s == y.img.sec
      IN \A i \in 0 .. s.memsz - 1 :
           y.img.mem[s.vaddr + 2 * pagesize + i]
             = IF i < s.filesz THEN FileByte(s.off + i) ELSE 0

\* Every bound slot, of data or of calls, bound at the start or on first use,
\* refers to the one definition the chain has: the first global one, else the
\* first weak one.
OneDefinition ==
    y.at \in {"reloc", "plt", "run", "done"} =>
      LET globals == SelectSeq(y.chain, LAMBDA m : y.sym[m] = "global")
          weaks   == SelectSeq(y.chain, LAMBDA m : y.sym[m] = "weak")
          the     == Head(globals \o weaks)
      IN globals \o weaks # <<>> =>
           \A m \in ToSet(y.chain) :
             y.got[m] \in {NONE, the} /\ y.plt[m] \in {NONE, STUB, the}

\* The executable's copy of a library's variable is a copy of the relocated
\* one, which is why it is relocated last.
CopiesAreRelocated ==
    y.at \in {"plt", "run", "done"} /\ y.rel[Exe] = CopyV =>
      LET src == SelectSeq(Tail(y.chain), LAMBDA m : y.sym[m] = "global")[1]
      IN y.rel[src] # <<>> /\ Head(y.rel[src]).type = "RELATIVE" => y.data[Exe] = "moved"
=============================================================================
