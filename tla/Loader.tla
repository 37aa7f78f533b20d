------------------------------- MODULE Loader -------------------------------
(***************************************************************************)
(* Code that enters the kernel: loadable modules (module.c), the images of  *)
(* programs (elf.c), and shared libraries (ldso.c).                        *)
(*                                                                         *)
(* The table of modules is shifted when one is unloaded, and a module's    *)
(* init and exit functions run without module_lock: the tasks below keep   *)
(* an index into the table meanwhile.                                      *)
(***************************************************************************)
EXTENDS Naturals, Integers, Sequences, FiniteSets, SequencesExt, FiniteSetsExt, Functions

CONSTANTS MODULE_MAX, ModName, ModTask,
          MaxLoads, MaxRefs,       \* modules ever loaded; references held at once
          SymbolsOf, Exported,     \* symbols of a module, by name; exports, by symbol
          Image,                   \* executables: [size, segments]
          PAGE, BUFFER,            \* bytes of a page, and of the file buffer
          LDSO_MAX_LIBS, LibName, LdTask, LdSym,
          Needs,                   \* by library, the names of its DT_NEEDED entries
          MaxLibLoads, MaxLibRefs  \* libraries ever loaded; pointers handed out at once

VARIABLES module_table, loads, mod_call, mod_freed, mod_inits, mod_refs,
          mod_overlap, mod_shifted, mod_crashed,
          elf,
          ldso, ld_calls, ld_loads, ld_handles, ld_lent, ld_ran, ld_gone, ld_torn, ld_moved

modVars == <<module_table, loads, mod_call, mod_freed, mod_inits, mod_refs, mod_overlap, mod_shifted, mod_crashed>>
elfVars == <<elf>>
ldsoVars == <<ldso, ld_calls, ld_loads, ld_handles, ld_lent, ld_ran, ld_gone, ld_torn, ld_moved>>

-----------------------------------------------------------------------------
(* module.c: module_table is as long as module_count; behind it are zeroes. *)
(* Each load has a number, standing for the sections its slot points to.   *)

Load == 1..MaxLoads
no_mod_call == [op |-> "none", at |-> 0, load |-> 0]

module_init ==
  /\ module_table = <<>> /\ loads = 0
  /\ mod_call = [t \in ModTask |-> no_mod_call]
  /\ mod_freed = [l \in Load |-> 0] /\ mod_inits = [l \in Load |-> 0]
  /\ mod_refs = {} /\ mod_overlap = FALSE /\ mod_shifted = FALSE /\ mod_crashed = FALSE

others_busy(t) == \E u \in ModTask \ {t} : mod_call[u].op # "none"

named(name) == {i \in DOMAIN module_table : module_table[i].name = name}

\* Up to the unlock; there is no test for a module of that name.  A .text, .data
\* or .bss that cannot be allocated undoes the load and is not shown.  symbols:
\* both tables were allocated and strtab, overwritten by each string table of
\* the file, ends as the one of the symbols; without it there is no init or exit.
module_load(t, name, symbols) ==
  /\ ~mod_crashed /\ mod_call[t].op = "none" /\ loads < MaxLoads
  /\ Len(module_table) < MODULE_MAX
  /\ module_table' = Append(module_table, [name |-> name, load |-> loads + 1, ref_count |-> 1, going |-> FALSE, symbols |-> symbols])
  /\ loads' = loads + 1
  /\ mod_call' = [mod_call EXCEPT ![t] = [op |-> "init", at |-> Len(module_table) + 1, load |-> loads + 1]]
  /\ UNCHANGED <<mod_freed, mod_inits, mod_refs, mod_overlap, mod_shifted, mod_crashed>>

\* mod->init, read from the slot when the lock has been dropped.
run_init(t) ==
  LET at == mod_call[t].at
  IN  /\ ~mod_crashed /\ mod_call[t].op = "init"
      /\ mod_inits' = IF at \in DOMAIN module_table /\ module_table[at].symbols
                      THEN [mod_inits EXCEPT ![module_table[at].load] = Min({2, @ + 1})]
                      ELSE mod_inits
      /\ mod_call' = [mod_call EXCEPT ![t] = no_mod_call]
      /\ UNCHANGED <<module_table, loads, mod_freed, mod_refs, mod_overlap, mod_shifted, mod_crashed>>

unloadable(m) == m.ref_count <= 1

\* The sections of whatever is in the slot now, and the entries behind it one
\* place down.  With an empty table the loop bound wraps.
unload_shift(at) ==
  LET n == Len(module_table)
  IN  /\ mod_freed' = IF at <= n THEN [mod_freed EXCEPT ![module_table[at].load] = Min({2, @ + 1})] ELSE mod_freed
      /\ module_table' = IF n = 0 THEN <<>> ELSE IF at <= n THEN RemoveAt(module_table, at) ELSE Front(module_table)
      /\ mod_crashed' = (n = 0)
      /\ mod_shifted' = (mod_shifted \/ \E r \in mod_refs : r.at > at)

\* Whole, if there is no exit function, else up to its call.  A module that is
\* already going is found again.
module_unload(t, name) ==
  /\ ~mod_crashed /\ mod_call[t].op = "none" /\ named(name) # {}
  /\ mod_overlap' = (mod_overlap \/ others_busy(t))
  /\ LET i == Min(named(name))
         m == module_table[i]
     IN  /\ unloadable(m)
         /\ \/ /\ ~m.symbols
               /\ unload_shift(i)
               /\ UNCHANGED mod_call
            \/ /\ m.symbols
               /\ module_table' = [module_table EXCEPT ![i].going = TRUE]
               /\ mod_call' = [mod_call EXCEPT ![t] = [op |-> "exit", at |-> i, load |-> m.load]]
               /\ UNCHANGED <<mod_freed, mod_shifted, mod_crashed>>
  /\ UNCHANGED <<loads, mod_inits, mod_refs>>

\* From the lock behind exit on.
unload_rest(t) ==
  /\ ~mod_crashed /\ mod_call[t].op = "exit"
  /\ unload_shift(mod_call[t].at)
  /\ mod_call' = [mod_call EXCEPT ![t] = no_mod_call]
  /\ mod_overlap' = (mod_overlap \/ others_busy(t))
  /\ UNCHANGED <<loads, mod_inits, mod_refs>>

\* A pointer into the table, taken without the lock.
module_find(t, name) ==
  /\ ~mod_crashed /\ mod_call[t].op = "none" /\ named(name) # {} /\ Cardinality(mod_refs) < MaxRefs
  /\ LET i == Min(named(name))
     IN  mod_call' = [mod_call EXCEPT ![t] = [op |-> "found", at |-> i, load |-> module_table[i].load]]
  /\ UNCHANGED <<module_table, loads, mod_freed, mod_inits, mod_refs, mod_overlap, mod_shifted, mod_crashed>>

\* The caller of module_find counts what the pointer points to by now.
module_get(t) ==
  LET c == mod_call[t]
  IN  /\ ~mod_crashed /\ c.op = "found"
      /\ module_table' = IF c.at \in DOMAIN module_table THEN [module_table EXCEPT ![c.at].ref_count = @ + 1] ELSE module_table
      /\ mod_overlap' = (mod_overlap \/ (c.at \in DOMAIN module_table /\ module_table[c.at].going))
      /\ \E k \in 1..MaxRefs :
           /\ \A r \in mod_refs : r.nth # k
           /\ mod_refs' = mod_refs \cup {[at |-> c.at, load |-> c.load, nth |-> k]}
      /\ mod_call' = [mod_call EXCEPT ![t] = no_mod_call]
      /\ UNCHANGED <<loads, mod_freed, mod_inits, mod_shifted, mod_crashed>>

module_put(r) ==
  /\ ~mod_crashed
  /\ mod_refs' = mod_refs \ {r}
  /\ module_table' = IF r.at \in DOMAIN module_table /\ module_table[r.at].ref_count > 0
                     THEN [module_table EXCEPT ![r.at].ref_count = @ - 1] ELSE module_table
  /\ UNCHANGED <<loads, mod_call, mod_freed, mod_inits, mod_overlap, mod_shifted, mod_crashed>>

\* An export, else the symbol of the first module that has it, going or not.
module_lookup_symbol(sym) ==
  LET having == {i \in DOMAIN module_table : module_table[i].symbols /\ sym \in SymbolsOf[module_table[i].name]}
  IN  IF sym \in Exported THEN [found |-> "export", load |-> 0]
      ELSE IF having = {} THEN [found |-> "none", load |-> 0]
      ELSE [found |-> "module", load |-> module_table[Min(having)].load]

ModNext ==
  \/ \E t \in ModTask, name \in ModName, symbols \in BOOLEAN : module_load(t, name, symbols)
  \/ \E t \in ModTask, name \in ModName : module_unload(t, name) \/ module_find(t, name)
  \/ \E t \in ModTask : run_init(t) \/ unload_rest(t) \/ module_get(t)
  \/ \E r \in mod_refs : module_put(r)

\* As long as no unload starts or ends while another task is in an init or exit
\* function or between module_find and module_get, nor a module going is
\* referenced: the sections of a module are freed once, when it leaves the
\* table; its own init function runs, once; no symbol resolves into freed
\* sections; and, if no module in front of it was unloaded meanwhile, a
\* referenced module stays in the slot its holder points to, counted, so that
\* the last module_put leaves the count where module_load set it (module_load,
\* module_unload, module_get, module_put, module_lookup_symbol).
ModuleBooks ==
  LET here == {module_table[i].load : i \in DOMAIN module_table}
      starting(l) == \E t \in ModTask : mod_call[t].op = "init" /\ mod_call[t].load = l
  IN  ~mod_overlap =>
        /\ ~mod_crashed
        /\ \A l \in 1..loads : mod_freed[l] = IF l \in here THEN 0 ELSE 1
        /\ \A m \in Range(module_table) : mod_inits[m.load] = IF starting(m.load) \/ ~m.symbols THEN 0 ELSE 1
        /\ \A sym \in UNION Range(SymbolsOf) : module_lookup_symbol(sym).found = "module" =>
             mod_freed[module_lookup_symbol(sym).load] = 0
        /\ ~mod_shifted =>
             \A i \in DOMAIN module_table :
               LET held == {r \in mod_refs : r.at = i}
               IN  /\ \A r \in held : r.load = module_table[i].load
                   /\ module_table[i].ref_count = 1 + Cardinality(held)

-----------------------------------------------------------------------------
(* elf.c: an image is loaded page by page.  A byte of memory is the index  *)
(* of the file byte copied there, or UNKNOWN, what the frame held before.  *)
(* The tables built are left behind: no caller is told of them.            *)

UNKNOWN == -1
nothing_mapped == <<>>
page_of(a) == a - (a % PAGE)

elf_init == elf = [phase |-> "idle", image |-> [size |-> 0, segments |-> <<>>], seg |-> 0, va |-> 0, unmapped |-> FALSE, pages |-> nothing_mapped]

\* elf_load_from_file reads page by page into a buffer and stops a page before
\* its end.
bytes_read(image) == Min({image.size, BUFFER - PAGE})

segment_start(image, seg, unmapped, pages) ==
  [phase |-> IF seg > Len(image.segments) THEN "stack" ELSE "segments", image |-> image, seg |-> seg,
   va |-> IF seg > Len(image.segments) THEN 0 ELSE page_of(image.segments[seg].vaddr),
   unmapped |-> unmapped, pages |-> pages]

elf_load_from_file(image) ==
  /\ elf.phase = "idle"
  /\ elf' = segment_start(image, 1, FALSE, nothing_mapped)

copy_from(ph, off) == IF off < ph.offset THEN ph.offset - off ELSE 0

\* How many bytes the page at file offset off takes.
copy_size(ph, off) ==
  LET file_end == ph.offset + ph.filesz
      start == copy_from(ph, off)
  IN  IF off >= file_end THEN 0
      ELSE IF off + (PAGE - start) > file_end THEN file_end - off - start
      ELSE PAGE - start

page_bytes(image, ph, va) ==
  LET off == page_of(ph.offset) + (va - page_of(ph.vaddr))
      copied(i) == i >= copy_from(ph, off) /\ i < copy_from(ph, off) + copy_size(ph, off)
  IN  [i \in 0..(PAGE - 1) |-> IF copied(i) /\ off + i < bytes_read(image) THEN off + i ELSE UNKNOWN]

map_page(va, bytes) == [a \in DOMAIN elf.pages \cup {va} |-> IF a = va THEN bytes ELSE elf.pages[a]]

in_segment == elf.phase = "segments" /\ elf.va < elf.image.segments[elf.seg].vaddr + elf.image.segments[elf.seg].memsz

\* elf_load_from_memory: one page of a segment, on a frame of its own.  Whether
\* pmap_map_page got its tables is not looked at.
elf_load_page(tables) ==
  /\ in_segment
  /\ elf' = [elf EXCEPT !.va = @ + PAGE, !.unmapped = @ \/ ~tables,
               !.pages = IF tables THEN map_page(elf.va, page_bytes(elf.image, elf.image.segments[elf.seg], elf.va)) ELSE @]

elf_next_segment ==
  /\ elf.phase = "segments" /\ ~in_segment
  /\ elf' = segment_start(elf.image, elf.seg + 1, elf.unmapped, elf.pages)

\* No frame is left: the pages and the tables made so far stay allocated.
elf_no_memory ==
  /\ in_segment \/ elf.phase = "stack"
  /\ elf' = [elf EXCEPT !.phase = "failed"]

\* USER_STACK_TOP is the last byte of a page; the loop starts a whole number of
\* pages below it.
elf_stack_top == 8 * PAGE - 1
elf_stack_size == 2 * PAGE
stack_pages == {page_of(elf_stack_top - elf_stack_size + k * PAGE) : k \in {j \in 0..8 : j * PAGE < elf_stack_size}}

\* elf_setup_stack pushes downwards from the top it is given.
first_push == elf_stack_top - 1

elf_map_stack(tables) ==
  /\ elf.phase = "stack"
  /\ elf' = [elf EXCEPT !.phase = "loaded", !.unmapped = @ \/ ~tables,
               !.pages = [a \in DOMAIN elf.pages \cup (IF tables THEN stack_pages ELSE {}) |->
                            IF a \in stack_pages THEN [i \in 0..(PAGE - 1) |-> UNKNOWN] ELSE elf.pages[a]]]

ElfNext ==
  \/ (\E image \in Image : elf_load_from_file(image))
  \/ (\E tables \in BOOLEAN : elf_load_page(tables) \/ elf_map_stack(tables))
  \/ elf_next_segment \/ elf_no_memory

\* An image that is loaded, and for which every table could be allocated, has
\* every byte of a segment that was read at its address, unless a later segment
\* begins in the same page: that segment's frame replaces the page, and what
\* the earlier one had there is gone.  The bytes behind a segment's file part
\* are never cleared: they hold what the frame held, or, in the first page
\* only, file bytes from behind the segment.  The page elf_setup_stack pushes
\* its first word to is not among those mapped for the stack
\* (elf_load_from_memory, elf_setup_stack).
ElfBooks ==
  LET segs == elf.image.segments
      touched(s) == {page_of(a) : a \in segs[s].vaddr..(segs[s].vaddr + segs[s].memsz - 1)}
      byte(a) == elf.pages[page_of(a)][a % PAGE]
      kept(s, a) == \A r \in DOMAIN segs : r > s => page_of(a) \notin touched(r)
  IN  elf.phase = "loaded" /\ ~elf.unmapped =>
        /\ \A s \in DOMAIN segs : \A k \in 0..(segs[s].memsz - 1) :
             LET a == segs[s].vaddr + k
                 f == segs[s].offset + k
             IN  kept(s, a) =>
                   IF k < segs[s].filesz THEN byte(a) = (IF f < bytes_read(elf.image) THEN f ELSE UNKNOWN)
                   ELSE byte(a) = UNKNOWN \/ (byte(a) = f /\ page_of(a) = page_of(segs[s].vaddr))
        /\ page_of(first_push) \notin DOMAIN elf.pages

-----------------------------------------------------------------------------
(* ldso.c: the shared libraries.  libs is the array whole: behind lib_count *)
(* are zeroes or what an unloaded library left.  A load has a number, which *)
(* stands for the addresses its slot holds.  ldso.lock is held within a     *)
(* step only: between the steps of a call another task runs.                *)

LdSlot == 1..LDSO_MAX_LIBS
LibLoad == 1..MaxLibLoads

klib_t ==
  [name : LibName \cup {"none"},
   load : LibLoad \cup {0},
   ref_count : Int,
   symtab : {0, 1},
   resolved : {0, 1},
   initialized : {0, 1}]

sym_cache_entry_t ==
  [name : LdSym \cup {"none"},
   owner : LdSlot \cup {0},
   load : LibLoad \cup {0}]

ldso_state_t ==
  [libs : [LdSlot -> klib_t],
   sym_cache : sym_cache_entry_t,      \* the one entry that the symbols hash to
   lib_count : 0..LDSO_MAX_LIBS]

zeroed_lib == [name |-> "none", load |-> 0, ref_count |-> 0, symtab |-> 0, resolved |-> 0, initialized |-> 0]
no_entry == [name |-> "none", owner |-> 0, load |-> 0]

ldso_init_state ==
  /\ ldso = [libs |-> [i \in LdSlot |-> zeroed_lib], sym_cache |-> no_entry, lib_count |-> 0]
  /\ ld_calls = [t \in LdTask |-> <<>>]
  /\ ld_loads = 0
  /\ ld_handles = {}
  /\ ld_lent = [l \in LibLoad |-> 0]
  /\ ld_ran = [l \in LibLoad |-> [init |-> 0, fini |-> 0]]
  /\ ld_gone = {} /\ ld_torn = FALSE /\ ld_moved = FALSE

\* The calls of a task in progress, the innermost last: a library that another
\* needs is loaded by the call that loads the other.
in_call(t) == ld_calls[t] # <<>>
top(t) == Last(ld_calls[t])
doing(t, ops) == in_call(t) /\ top(t).op \in ops
opening(name) == [op |-> "open", name |-> name, slot |-> 0, load |-> 0, needs |-> <<>>]
goto(t, f) == [ld_calls EXCEPT ![t] = Append(Front(@), f)]
return(t) == [ld_calls EXCEPT ![t] = Front(@)]
others_calling(t) == \E u \in LdTask \ {t} : in_call(u)

ldso_find_loaded(name) ==
  {i \in 1..ldso.lib_count : ldso.libs[i].name = name}

\* Who asked for the library has a reference: the library that needs it, or the
\* caller, who keeps the pointer to the slot.
credit(t, slot, load) ==
  \/ /\ Len(ld_calls[t]) > 1
     /\ ld_lent' = [ld_lent EXCEPT ![load] = @ + 1]
     /\ UNCHANGED ld_handles
  \/ /\ Len(ld_calls[t]) = 1
     /\ LET k == Min({n \in 1..MaxLibRefs : \A h \in ld_handles : h.nth # n})
        IN  ld_handles' = ld_handles \cup {[slot |-> slot, load |-> load, nth |-> k]}
     /\ UNCHANGED ld_lent

\* Up to the lock.
ldso_load_library(t, name) ==
  /\ ~in_call(t)
  /\ Cardinality(ld_handles) + Cardinality({u \in LdTask : in_call(u)}) < MaxLibRefs
  /\ ld_calls' = [ld_calls EXCEPT ![t] = <<opening(name)>>]
  /\ ld_torn' = (ld_torn \/ \E u \in LdTask : doing(u, {"leaving", "inits", "finis"}))
  /\ UNCHANGED <<ldso, ld_loads, ld_handles, ld_lent, ld_ran, ld_gone, ld_moved>>

\* The file is missing or no shared object, or the table is full: that refuses a
\* library which is in it, too.
ldso_cannot_open(t) ==
  /\ doing(t, {"open"})
  /\ ld_calls' = return(t)
  /\ UNCHANGED <<ldso, ld_loads, ld_handles, ld_lent, ld_ran, ld_gone, ld_torn, ld_moved>>

\* The first critical section.  The slot taken is named when the lock has been
\* dropped: until then it has the name of the library that was there.
ldso_take_slot(t) ==
  LET name == top(t).name
      found == ldso_find_loaded(name)
      i == Min(found)
      slot == ldso.lib_count + 1
  IN  /\ doing(t, {"open"}) /\ ldso.lib_count < LDSO_MAX_LIBS
      /\ ld_torn' = (ld_torn \/ \E u \in LdTask \ {t} : doing(u, {"claimed"}))
      /\ \/ /\ found # {}
            /\ ldso' = [ldso EXCEPT !.libs[i].ref_count = @ + 1]
            /\ credit(t, i, ldso.libs[i].load)
            /\ ld_calls' = return(t)
            /\ UNCHANGED ld_loads
         \/ /\ found = {} /\ ld_loads < MaxLibLoads
            /\ ldso' = [ldso EXCEPT !.lib_count = slot]
            /\ ld_loads' = ld_loads + 1
            /\ ld_calls' = goto(t, [op |-> "claimed", name |-> name, slot |-> slot, load |-> ld_loads + 1, needs |-> Needs[name]])
            /\ UNCHANGED <<ld_handles, ld_lent>>
      /\ UNCHANGED <<ld_ran, ld_gone, ld_moved>>

ldso_name_slot(t) ==
  LET f == top(t)
  IN  /\ doing(t, {"claimed"})
      /\ ldso' = [ldso EXCEPT !.libs[f.slot] = [zeroed_lib EXCEPT !.name = f.name, !.load = f.load, !.ref_count = 1]]
      /\ ld_calls' = goto(t, [f EXCEPT !.op = "named"])
      /\ UNCHANGED <<ld_loads, ld_handles, ld_lent, ld_ran, ld_gone, ld_torn, ld_moved>>

\* No memory for the headers, a read that comes short, nothing to load: the
\* table is one shorter, whatever its last slot is by now.
ldso_load_fails(t) ==
  LET f == top(t)
  IN  /\ doing(t, {"named"}) /\ ldso.lib_count > 0
      /\ ldso' = [ldso EXCEPT !.lib_count = @ - 1]
      /\ ld_gone' = ld_gone \cup {f.load}
      /\ ld_calls' = return(t)
      /\ ld_torn' = (ld_torn \/ f.slot # ldso.lib_count \/ ldso.libs[f.slot].ref_count # 1)
      /\ UNCHANGED <<ld_loads, ld_handles, ld_lent, ld_ran, ld_moved>>

\* The segments are read and the tables found.  Every load gets its addresses
\* from a vma_t of its own, so from the same one on: what a symbol resolves to
\* is any library that is loaded, as a later one overwrites the tables.
ldso_parse_dynamic(t) ==
  /\ doing(t, {"named"})
  /\ ldso' = [ldso EXCEPT !.libs[top(t).slot].symtab = 1]
  /\ ld_calls' = goto(t, [top(t) EXCEPT !.op = "parsed"])
  /\ UNCHANGED <<ld_loads, ld_handles, ld_lent, ld_ran, ld_gone, ld_torn, ld_moved>>

\* The next DT_NEEDED: one more reference, or a call of ldso_load_library whose
\* failure is passed over.
ldso_load_dependencies(t) ==
  LET f == top(t)
      found == ldso_find_loaded(Head(f.needs))
      i == Min(found)
      rest == goto(t, [f EXCEPT !.needs = Tail(@)])
  IN  /\ doing(t, {"parsed"}) /\ f.needs # <<>>
      /\ ld_torn' = (ld_torn \/ \E u \in LdTask \ {t} : doing(u, {"claimed"}))
      /\ \/ /\ found # {}
            /\ ldso' = [ldso EXCEPT !.libs[i].ref_count = @ + 1]
            /\ ld_lent' = [ld_lent EXCEPT ![ldso.libs[i].load] = @ + 1]
            /\ ld_calls' = rest
         \/ /\ found = {}
            /\ ld_calls' = [rest EXCEPT ![t] = Append(@, opening(Head(f.needs)))]
            /\ UNCHANGED <<ldso, ld_lent>>
      /\ UNCHANGED <<ld_loads, ld_handles, ld_ran, ld_gone, ld_moved>>

\* The cache, else the table in order of its slots; 0 is a symbol nobody has.
ldso_lookup_symbol(sym, owner) ==
  IF ldso.sym_cache.name = sym \/ owner = 0 \/ ldso.libs[owner].symtab = 0
  THEN ldso.sym_cache
  ELSE [name |-> sym, owner |-> owner, load |-> ldso.libs[owner].load]

ldso_relocate(t, sym, owner) ==
  LET f == top(t)
  IN  /\ doing(t, {"parsed"}) /\ f.needs = <<>>
      /\ ldso' = [ldso EXCEPT !.libs[f.slot].resolved = 1,
                    !.sym_cache = IF ldso.libs[f.slot].resolved = 1 THEN @ ELSE ldso_lookup_symbol(sym, owner)]
      /\ credit(t, f.slot, f.load)
      /\ ld_calls' = return(t)
      /\ ld_torn' = (ld_torn \/ \E u \in LdTask \ {t} : doing(u, {"claimed"}))
      /\ UNCHANGED <<ld_loads, ld_ran, ld_gone, ld_moved>>

\* .init and .init_array of the libraries that have not run theirs, in the order
\* of the slots; the lock is dropped around each.
ldso_call_init(t) ==
  /\ ~in_call(t)
  /\ ld_calls' = [ld_calls EXCEPT ![t] = <<[opening("none") EXCEPT !.op = "inits", !.slot = 1]>>]
  /\ ld_torn' = (ld_torn \/ others_calling(t))
  /\ UNCHANGED <<ldso, ld_loads, ld_handles, ld_lent, ld_ran, ld_gone, ld_moved>>

ran(load, what) ==
  IF load = 0 THEN ld_ran
  ELSE IF what = "init" THEN [ld_ran EXCEPT ![load].init = Min({2, @ + 1})]
  ELSE [ld_ran EXCEPT ![load].fini = 1]

call_next_init(t) ==
  LET todo == {i \in top(t).slot..ldso.lib_count : ldso.libs[i].initialized = 0}
      i == Min(todo)
  IN  /\ doing(t, {"inits"})
      /\ \/ /\ todo = {}
            /\ ld_calls' = return(t)
            /\ UNCHANGED <<ldso, ld_ran>>
         \/ /\ todo # {}
            /\ ldso' = [ldso EXCEPT !.libs[i].initialized = 1]
            /\ ld_ran' = ran(ldso.libs[i].load, "init")
            /\ ld_calls' = goto(t, [top(t) EXCEPT !.slot = i + 1])
      /\ ld_torn' = (ld_torn \/ others_calling(t))
      /\ UNCHANGED <<ld_loads, ld_handles, ld_lent, ld_gone, ld_moved>>

\* .fini of all libraries, the last slot first, whether .init has run or not.
ldso_call_fini(t) ==
  /\ ~in_call(t)
  /\ ld_calls' = [ld_calls EXCEPT ![t] = <<[opening("none") EXCEPT !.op = "finis", !.slot = ldso.lib_count]>>]
  /\ ld_torn' = (ld_torn \/ others_calling(t))
  /\ UNCHANGED <<ldso, ld_loads, ld_handles, ld_lent, ld_ran, ld_gone, ld_moved>>

call_next_fini(t) ==
  LET i == top(t).slot
  IN  /\ doing(t, {"finis"})
      /\ \/ /\ i = 0
            /\ ld_calls' = return(t)
            /\ UNCHANGED ld_ran
         \/ /\ i > 0
            /\ ld_ran' = ran(ldso.libs[i].load, "fini")
            /\ ld_calls' = goto(t, [top(t) EXCEPT !.slot = i - 1])
      /\ ld_torn' = (ld_torn \/ others_calling(t))
      /\ UNCHANGED <<ldso, ld_loads, ld_handles, ld_lent, ld_gone, ld_moved>>

\* The pages are unmapped, the last slot moves into the one left, and the cached
\* symbols owned by that slot are dropped: those of the library that moved are
\* still owned by the slot it came from.
drop_slot(slot) ==
  LET n == ldso.lib_count
  IN  /\ n > 0
      /\ ldso' = [libs |-> IF slot < n THEN [ldso.libs EXCEPT ![slot] = ldso.libs[n]] ELSE ldso.libs,
                  sym_cache |-> IF ldso.sym_cache.owner = slot THEN no_entry ELSE ldso.sym_cache,
                  lib_count |-> n - 1]
      /\ ld_gone' = ld_gone \cup {ldso.libs[slot].load}
      /\ ld_moved' = (ld_moved \/ slot < n)

\* With a .fini to run, up to its call.  A count that is 0 already goes below and
\* counts as the last reference.  What the library
\* needs keeps the references it was given.
ldso_unload_library(t, h) ==
  LET lib == ldso.libs[h.slot]
  IN  /\ ~in_call(t) /\ ldso.lib_count > 0
      /\ ld_handles' = ld_handles \ {h}
      /\ ld_torn' = (ld_torn \/ others_calling(t) \/ h.slot > ldso.lib_count \/ lib.load # h.load)
      /\ \/ /\ lib.ref_count > 1
            /\ ldso' = [ldso EXCEPT !.libs[h.slot].ref_count = @ - 1]
            /\ UNCHANGED <<ld_calls, ld_gone, ld_moved, ld_ran>>
         \/ /\ lib.ref_count <= 1 /\ lib.initialized = 1
            /\ ldso' = [ldso EXCEPT !.libs[h.slot].ref_count = @ - 1]
            /\ ld_ran' = ran(lib.load, "fini")
            /\ ld_calls' = [ld_calls EXCEPT ![t] = <<[opening("none") EXCEPT !.op = "leaving", !.slot = h.slot]>>]
            /\ UNCHANGED <<ld_gone, ld_moved>>
         \/ /\ lib.ref_count <= 1 /\ lib.initialized = 0
            /\ drop_slot(h.slot)
            /\ UNCHANGED <<ld_calls, ld_ran>>
      /\ UNCHANGED <<ld_loads, ld_lent>>

\* From the lock behind .fini on.
ldso_unload_rest(t) ==
  /\ doing(t, {"leaving"})
  /\ drop_slot(top(t).slot)
  /\ ld_calls' = return(t)
  /\ ld_torn' = (ld_torn \/ others_calling(t))
  /\ UNCHANGED <<ld_loads, ld_handles, ld_lent, ld_ran>>

\* What follows when a slot has been torn is not explored.
LdsoNext ==
  /\ ~ld_torn
  /\ \/ \E t \in LdTask, name \in LibName : ldso_load_library(t, name)
     \/ \E t \in LdTask, sym \in LdSym, owner \in 0..ldso.lib_count : ldso_relocate(t, sym, owner)
     \/ \E t \in LdTask : \/ ldso_cannot_open(t) \/ ldso_take_slot(t) \/ ldso_name_slot(t)
                          \/ ldso_load_fails(t) \/ ldso_parse_dynamic(t) \/ ldso_load_dependencies(t)
                          \/ ldso_call_init(t) \/ call_next_init(t)
                          \/ ldso_call_fini(t) \/ call_next_fini(t)
                          \/ ldso_unload_rest(t)
     \/ \E t \in LdTask, h \in ld_handles : ldso_unload_library(t, h)

\* As long as no library is unloaded and no .init or .fini runs while another call
\* is under way, nor a library unloaded through the pointer to a slot it has left,
\* nobody looks into a slot that is taken but not named, and a load that fails is
\* the last of the table and not yet found by another: the table has each library that is loaded once, and no other;
\* its count is the pointers handed out and the libraries that needed it, those
\* long unloaded included, so that it never leaves while one is used; its .init
\* has run at most once, and its .fini when it leaves.  Until an unload moves the
\* last library into another slot, a pointer handed out points to the library it
\* was handed out for, and no cached symbol is one of an unloaded library
\* (ldso_load_library, ldso_load_dependencies, ldso_unload_library).
LdsoBooks ==
  LET libs == ldso.libs
      unnamed == {top(t).slot : t \in {u \in LdTask : doing(u, {"claimed"})}}
      here == (1..ldso.lib_count) \ unnamed
      underway(l) == {<<t, k>> \in LdTask \X (1..MaxLibLoads) : k \in DOMAIN ld_calls[t] /\ ld_calls[t][k].load = l}
      held(l) == Cardinality({h \in ld_handles : h.load = l}) + ld_lent[l] + Cardinality(underway(l))
  IN  ~ld_torn =>
        /\ ldso.lib_count + Cardinality(ld_gone) = ld_loads
        /\ \A i, j \in here : i # j => libs[i].name # libs[j].name
        /\ \A i \in here : LET l == libs[i].load
                         IN  /\ l \in 1..ld_loads /\ l \notin ld_gone
                             /\ libs[i].ref_count = held(l)
                             /\ ld_ran[l].init = libs[i].initialized
        /\ \A l \in ld_gone : ld_ran[l].init <= ld_ran[l].fini
        /\ ~ld_moved =>
             /\ \A h \in ld_handles : h.slot \in here /\ libs[h.slot].load = h.load
             /\ LET c == ldso.sym_cache
                IN  c.owner # 0 => c.owner \in here /\ libs[c.owner].load = c.load

-----------------------------------------------------------------------------

\* Every variable of the loaders holds a value of its type.
LoaderTypeOK ==
  /\ module_table \in Seq([name : ModName, load : Load, ref_count : Nat, going : BOOLEAN, symbols : BOOLEAN])
  /\ Len(module_table) <= MODULE_MAX /\ loads \in 0..MaxLoads
  /\ mod_freed \in [Load -> 0..2] /\ mod_inits \in [Load -> 0..2]
  /\ elf.phase \in {"idle", "segments", "stack", "loaded", "failed"}
  /\ ldso \in ldso_state_t
  /\ \A t \in LdTask : Len(ld_calls[t]) <= 1 + Cardinality(LibName)
=============================================================================
