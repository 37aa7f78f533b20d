------------------------------ MODULE Consoles ------------------------------
(***************************************************************************)
(* What a person at the machine meets: the log (printk.c), the keyboard    *)
(* and the mouse behind one controller (keyboard.c, mouse.c), and the      *)
(* debugger's stub (gdb_stub.c).                                           *)
(*                                                                         *)
(* Processes are preempted by the timer, also where they hold a lock.      *)
(***************************************************************************)
EXTENDS Naturals, Integers, Sequences, FiniteSets, SequencesExt, FiniteSetsExt, Functions

CONSTANTS LogProc, LOG_BUF_SIZE, MaxLogged,
          KbdReader, KBD_BUFFER_SIZE, MaxEvents,
          MaxStrokes, MaxPackets, MOUSE_BUFFER_SIZE,
          MaxHostSends, GdbAddr, GDB_BP_MAX

VARIABLES klog, logged, log_call, logbuf_lock, console_loglevel, console,
          kbd, kbd_accepted, kbd_delivered, kbd_reader, kbd_overtaken,
          ps2, keys,
          gdb, gdb_line, gdb_lost, gdb_sent,
          bp, bp_memory, bp_twice

logVars == <<klog, logged, log_call, logbuf_lock, console_loglevel, console>>
kbdVars == <<kbd, kbd_accepted, kbd_delivered, kbd_reader, kbd_overtaken>>
ps2Vars == <<ps2, keys>>
gdbVars == <<gdb, gdb_line, gdb_lost, gdb_sent>>
bpVars == <<bp, bp_memory, bp_twice>>

-----------------------------------------------------------------------------
(* printk.c.  A character is its writer and its place in what is written:  *)
(* 0 for the prefix of a level, 1 and 2 for the text.                      *)

NOBODY == "nobody"
no_char == <<NOBODY, 0>>
LogLevel == 0..1
no_print == [parts |-> <<>>, done |-> 0, level |-> 0, stored |-> FALSE]

log_init ==
  /\ klog = [buf |-> [i \in 0..(LOG_BUF_SIZE - 1) |-> no_char], head |-> 0, tail |-> 0]
  /\ logged = <<>> /\ log_call = [p \in LogProc |-> no_print]
  /\ logbuf_lock = NOBODY /\ console_loglevel = 1 /\ console = [p \in LogProc |-> 0]

tail_after(head, tail) == IF head - tail > LOG_BUF_SIZE THEN head - LOG_BUF_SIZE ELSE tail

log_char(c) ==
  /\ klog' = [buf |-> [klog.buf EXCEPT ![klog.head % LOG_BUF_SIZE] = c], head |-> klog.head + 1,
             tail |-> tail_after(klog.head + 1, klog.tail)]
  /\ logged' = Append(logged, c)

\* printk takes the level from its text; printk_err and the others store a
\* prefix of their own first, as a store of its own.
printk(p, level, prefixed) ==
  /\ log_call[p] = no_print /\ Len(logged) < MaxLogged
  /\ log_call' = [log_call EXCEPT ![p] = [parts |-> IF prefixed THEN <<<<0>>, <<1, 2>>>> ELSE <<<<1, 2>>>>, done |-> 0, level |-> level, stored |-> FALSE]]
  /\ UNCHANGED <<klog, logged, logbuf_lock, console_loglevel, console>>

may_store(p) == logbuf_lock \in {NOBODY, p}

\* __log_store: one character, with the lock from the first to the last.
log_store(p) ==
  LET call == log_call[p]
      part == Head(call.parts)
      last == call.done + 1 = Len(part)
  IN  /\ call.parts # <<>> /\ may_store(p)
      /\ log_char(<<p, part[call.done + 1]>>)
      /\ logbuf_lock' = IF last THEN NOBODY ELSE p
      /\ log_call' = [log_call EXCEPT ![p].done = IF last THEN 0 ELSE @ + 1,
                                      ![p].parts = IF last THEN Tail(@) ELSE @,
                                      ![p].stored = last /\ Len(call.parts) = 1]
      /\ UNCHANGED <<console_loglevel, console>>

\* The text, after the unlock, if its level is to be seen.
console_write(p) ==
  /\ log_call[p].stored
  /\ console' = IF log_call[p].level <= console_loglevel THEN [console EXCEPT ![p] = Min({@ + 1, 2})] ELSE console
  /\ log_call' = [log_call EXCEPT ![p] = no_print]
  /\ UNCHANGED <<klog, logged, logbuf_lock, console_loglevel>>

dmesg_clear ==
  /\ logbuf_lock = NOBODY /\ logged # <<>>
  /\ klog' = [buf |-> [i \in 0..(LOG_BUF_SIZE - 1) |-> no_char], head |-> 0, tail |-> 0]
  /\ logged' = <<>>
  /\ UNCHANGED <<log_call, logbuf_lock, console_loglevel, console>>

printk_set_loglevel(level) ==
  /\ console_loglevel' = level
  /\ UNCHANGED <<klog, logged, log_call, logbuf_lock, console>>

dmesg_read(size) ==
  [i \in 1..Min({klog.head - klog.tail, LOG_BUF_SIZE, size}) |-> klog.buf[(klog.tail + i - 1) % LOG_BUF_SIZE]]

LogNext ==
  \/ \E p \in LogProc, level \in LogLevel, prefixed \in BOOLEAN : printk(p, level, prefixed)
  \/ \E p \in LogProc : log_store(p) \/ console_write(p)
  \/ dmesg_clear
  \/ \E level \in LogLevel : printk_set_loglevel(level)

\* However the writers interleave, dmesg_read gives the last LOG_BUF_SIZE
\* characters stored since the log was cleared, and a shorter read the oldest
\* of them; no text is torn by another, though a prefix can be separated from
\* its text, being stored under the lock on its own (__log_store, dmesg_read,
\* dmesg_clear).
LogBooks ==
  LET n == Len(logged)
      kept == Min({n, LOG_BUF_SIZE})
  IN  /\ dmesg_read(LOG_BUF_SIZE + 1) = SubSeq(logged, n - kept + 1, n)
      /\ dmesg_read(1) = IF n = 0 THEN <<>> ELSE <<logged[n - kept + 1]>>
      /\ \A i \in 1..n : logged[i][2] = 1 =>
           IF i = n THEN logbuf_lock = logged[i][1] ELSE logged[i + 1] = <<logged[i][1], 2>>

-----------------------------------------------------------------------------
(* keyboard.c, the ring: filled by the interrupt, emptied by processes.    *)
(* An event is its number.                                                 *)

kbd_ring_init ==
  /\ kbd = [buffer |-> [i \in 0..(KBD_BUFFER_SIZE - 1) |-> 0], head |-> 0, tail |-> 0]
  /\ kbd_accepted = <<>> /\ kbd_delivered = <<>>
  /\ kbd_reader = [r \in KbdReader |-> "idle"] /\ kbd_overtaken = FALSE

\* A mutant: the index does not wrap.
kbd_after_unwrapped(i) == i + 1

kbd_after(i) == (i + 1) % KBD_BUFFER_SIZE

kbd_has_room == kbd_after(kbd.head) # kbd.tail

kbd_buffer_put ==
  /\ Len(kbd_accepted) < MaxEvents /\ kbd_has_room
  /\ kbd' = [kbd EXCEPT !.buffer[kbd.head] = Len(kbd_accepted) + 1, !.head = kbd_after(@)]
  /\ kbd_accepted' = Append(kbd_accepted, Len(kbd_accepted) + 1)
  /\ UNCHANGED <<kbd_delivered, kbd_reader, kbd_overtaken>>

\* Both tests for an event are made without the lock.
keyboard_wait(r, how) ==
  /\ kbd_reader[r] = "idle" /\ kbd.head # kbd.tail
  /\ kbd_reader' = [kbd_reader EXCEPT ![r] = how]
  /\ UNCHANGED <<kbd, kbd_accepted, kbd_delivered, kbd_overtaken>>

take_event ==
  /\ kbd' = [kbd EXCEPT !.tail = kbd_after(@)]
  /\ kbd_delivered' = Append(kbd_delivered, kbd.buffer[kbd.tail])

\* keyboard_read looks again with the lock, and may return no key.
keyboard_read(r) ==
  /\ kbd_reader[r] = "read"
  /\ IF kbd.head # kbd.tail THEN take_event ELSE UNCHANGED <<kbd, kbd_delivered>>
  /\ kbd_reader' = [kbd_reader EXCEPT ![r] = "idle"]
  /\ UNCHANGED <<kbd_accepted, kbd_overtaken>>

\* keyboard_poll does not.
keyboard_poll(r) ==
  /\ kbd_reader[r] = "poll" /\ Len(kbd_delivered) < MaxEvents + 1
  /\ take_event
  /\ kbd_overtaken' = (kbd_overtaken \/ kbd.head = kbd.tail)
  /\ kbd_reader' = [kbd_reader EXCEPT ![r] = "idle"]
  /\ UNCHANGED kbd_accepted

KbdNext ==
  \/ kbd_buffer_put
  \/ \E r \in KbdReader, how \in {"read", "poll"} : keyboard_wait(r, how)
  \/ \E r \in KbdReader : keyboard_read(r) \/ keyboard_poll(r)

\* Every event put in the ring is delivered once and in order, whichever
\* processes read and poll and however the interrupt comes between, until a
\* poll that saw an event finds it taken: it then takes an old one, the tail
\* passes the head and the whole ring is delivered again
\* (__kbd_buffer_put, keyboard_read, keyboard_poll).
KbdRing ==
  LET held == (kbd.head - kbd.tail + KBD_BUFFER_SIZE) % KBD_BUFFER_SIZE
      waiting_events == [i \in 1..held |-> kbd.buffer[(kbd.tail + i - 1) % KBD_BUFFER_SIZE]]
  IN  ~kbd_overtaken => kbd_delivered \o waiting_events = kbd_accepted

-----------------------------------------------------------------------------
(* keyboard.c and mouse.c behind their controller, whose one output buffer *)
(* holds a byte of either until it is read.  aux_bit: the controller tells *)
(* the mouse's bytes by bit 5 of its status, as most do.                   *)

Lock == {"CAPS", "NUM"}
none == <<"none", "none">>

ps2_init ==
  /\ ps2 = [wire |-> <<>>, aux_wire |-> <<>>, output |-> none, mouse |-> FALSE, aux_bit |-> FALSE, wheel |-> FALSE,
            running |-> TRUE, modifiers |-> {}, led |-> {}, extended |-> FALSE, packet |-> <<>>, ring |-> <<>>]
  /\ keys = [down |-> {}, odd |-> {}, strokes |-> 0, packets |-> 0, paused |-> FALSE, led_set |-> FALSE]

\* What a keyboard sends; "-" marks the code of a release.
make_code ==
  [LSHIFT |-> <<"LSHIFT">>, LCTRL |-> <<"LCTRL">>, RCTRL |-> <<"E0", "LCTRL">>, CAPS |-> <<"CAPS">>, NUM |-> <<"NUM">>,
   A |-> <<"A">>, PAUSE |-> <<"E1", "LCTRL", "NUM", "E1", "-LCTRL", "-NUM">>]
break_code ==
  [LSHIFT |-> <<"-LSHIFT">>, LCTRL |-> <<"-LCTRL">>, RCTRL |-> <<"E0", "-LCTRL">>, CAPS |-> <<"-CAPS">>, NUM |-> <<"-NUM">>,
   A |-> <<"-A">>, PAUSE |-> <<>>]
Key == DOMAIN make_code
quiet == ps2.running /\ ps2.wire = <<>> /\ ps2.aux_wire = <<>> /\ ps2.output = none

press(k) ==
  /\ quiet /\ keys.strokes < MaxStrokes /\ k \notin keys.down
  /\ ps2' = [ps2 EXCEPT !.wire = make_code[k]]
  /\ keys' = [keys EXCEPT !.strokes = @ + 1, !.down = @ \cup {k},
                !.odd = IF k \in {"NUM", "PAUSE"} THEN SymDiff(@, {"NUM"}) ELSE IF k = "CAPS" THEN SymDiff(@, {"CAPS"}) ELSE @,
                !.paused = IF k = "PAUSE" THEN TRUE ELSE IF k = "LCTRL" THEN FALSE ELSE @]

release(k) ==
  /\ quiet /\ k \in keys.down
  /\ ps2' = [ps2 EXCEPT !.wire = break_code[k]]
  /\ keys' = [keys EXCEPT !.down = @ \ {k}]

\* A packet of the mouse: flags, two movements and, with a wheel, a fourth byte.
move_mouse(flags) ==
  /\ quiet /\ ps2.mouse /\ keys.packets < MaxPackets
  /\ ps2' = [ps2 EXCEPT !.aux_wire = <<flags, "move", "move">> \o (IF ps2.wheel THEN <<"wheel">> ELSE <<>>)]
  /\ keys' = [keys EXCEPT !.packets = @ + 1]

controller ==
  /\ ps2.output = none
  /\ \/ ps2.wire # <<>> /\ ps2' = [ps2 EXCEPT !.output = <<"kbd", Head(ps2.wire)>>, !.wire = Tail(@)]
     \/ ps2.aux_wire # <<>> /\ ps2' = [ps2 EXCEPT !.output = <<"aux", Head(ps2.aux_wire)>>, !.aux_wire = Tail(@)]
  /\ UNCHANGED keys

\* Each command a keyboard takes it answers with a byte, which the handler
\* takes for the release of a key it has no name for.
update_led(s, led) == [s EXCEPT !.led = led, !.wire = @ \o <<"-ACK", "-ACK">>]

keyboard_set_led(led) ==
  /\ quiet /\ ~keys.led_set
  /\ ps2' = update_led(ps2, led)
  /\ keys' = [keys EXCEPT !.led_set = TRUE]

\* mouse_init: the identity the mouse answers with decides the packet's length.
mouse_init(wheel, aux_bit) ==
  /\ quiet /\ ~ps2.mouse
  /\ ps2' = [ps2 EXCEPT !.mouse = TRUE, !.wheel = wheel, !.aux_bit = aux_bit, !.packet = <<>>, !.ring = <<>>]
  /\ UNCHANGED keys

held(s, code, modifier) ==
  IF s.extended THEN [s EXCEPT !.extended = FALSE]
  ELSE [s EXCEPT !.modifiers = IF code = modifier THEN @ \cup {modifier} ELSE @ \ {modifier}]

lock_turns(code, lock) == code = lock

toggled(s, code, lock) ==
  IF s.extended THEN [s EXCEPT !.extended = FALSE]
  ELSE IF ~lock_turns(code, lock) THEN s
  ELSE LET modifiers == SymDiff(s.modifiers, {lock})
       IN  update_led([s EXCEPT !.modifiers = modifiers], (s.led \ {lock}) \cup (modifiers \cap {lock}))

\* __kbd_handle_key.  After 0xE0 every key is an event, a modifier too.
handle_key(s, code) ==
  CASE code = "E0" -> [s EXCEPT !.extended = TRUE]
    [] code = "E1" -> s
    [] code \in {"LSHIFT", "-LSHIFT"} -> held(s, code, "LSHIFT")
    [] code \in {"LCTRL", "-LCTRL"} -> held(s, code, "LCTRL")
    [] code \in {"CAPS", "-CAPS"} -> toggled(s, code, "CAPS")
    [] code \in {"NUM", "-NUM"} -> toggled(s, code, "NUM")
    [] OTHER -> [s EXCEPT !.extended = FALSE]

keyboard_irq_handler ==
  /\ ps2.output[1] = "kbd"
  /\ ps2' = handle_key([ps2 EXCEPT !.output = none], ps2.output[2])
  /\ UNCHANGED keys

\* (flags & 0xC8) == 0x08: the packets that begin as they should and have not
\* overflowed, which are the ones dropped.
dropped_packet(flags) == flags = "flags"

mouse_process_packet(s) ==
  [s EXCEPT !.packet = <<>>,
            !.ring = IF Len(@) < MOUSE_BUFFER_SIZE - 1 THEN Append(@, s.packet) ELSE @]

\* The command 0xFE to the controller resets the processor.
mouse_irq_handler ==
  /\ ps2.output[1] = "aux" /\ ps2.running
  /\ LET read == [ps2 EXCEPT !.output = none, !.packet = Append(@, ps2.output[2])]
     IN  ps2' = IF ps2.aux_bit THEN [ps2 EXCEPT !.running = FALSE]
                ELSE IF Len(read.packet) < (IF ps2.wheel THEN 4 ELSE 3) THEN read
                ELSE IF dropped_packet(read.packet[1]) THEN [read EXCEPT !.packet = <<>>]
                ELSE mouse_process_packet(read)
  /\ UNCHANGED keys

mouse_poll ==
  /\ ps2.running /\ ps2.ring # <<>>
  /\ ps2' = [ps2 EXCEPT !.ring = Tail(@)]
  /\ UNCHANGED keys

Ps2Next ==
  \/ \E k \in Key : press(k) \/ release(k)
  \/ \E flags \in {"flags", "overflow"} : move_mouse(flags)
  \/ \E led \in SUBSET Lock : keyboard_set_led(led)
  \/ \E wheel, aux_bit \in BOOLEAN : mouse_init(wheel, aux_bit)
  \/ controller \/ keyboard_irq_handler \/ mouse_irq_handler \/ mouse_poll

\* Once the keyboard's bytes are handled, shift is held exactly while its key
\* is; the left control key likewise, unless Pause was pressed meanwhile, whose
\* code ends in its release; the right one, an extended key, is never known to
\* be held.  Caps lock and num lock count their presses, Pause being a press of
\* num lock too, and the lights show the locks until keyboard_set_led is used.
\* No packet of the mouse that begins as it should and has not overflowed is
\* ever delivered, and where the controller marks the mouse's bytes the first
\* of them resets the machine (__kbd_handle_key, mouse_irq_handler).
Ps2Books ==
  /\ quiet =>
       LET control == {"LCTRL"} \cap keys.down
       IN  /\ ~ps2.extended
           /\ ps2.modifiers \ control = ({"LSHIFT"} \cap keys.down) \cup keys.odd
           /\ ~keys.paused => control \subseteq ps2.modifiers
           /\ ~keys.led_set => ps2.led = keys.odd
  /\ \A i \in 1..Len(ps2.ring) : ps2.ring[i][1] # "flags"
  /\ ps2.aux_bit => ps2.ring = <<>> /\ (quiet => keys.packets = 0)

-----------------------------------------------------------------------------
(* gdb_stub.c, the line.  What the debugger sends is cut into the signs    *)
(* the stub tells apart; "x" is any other character of a packet.           *)

Command == {"g", "c", "k"}

gdb_stub_init ==
  /\ gdb = [phase |-> "command", serving |-> "x", obeyed |-> {}, replies |-> 0]
  /\ gdb_line = <<>> /\ gdb_lost = FALSE /\ gdb_sent = 0

\* An acknowledgement, an interrupt (0x03) or a packet.
host_sends(signs) ==
  /\ gdb_sent < MaxHostSends
  /\ gdb_line' = gdb_line \o signs /\ gdb_sent' = gdb_sent + 1
  /\ UNCHANGED <<gdb, gdb_lost>>

packet(command) == <<"$", command, "#", "x", "x">>

\* A character the port drops before it is read.
line_loses ==
  /\ gdb_line # <<>>
  /\ gdb_line' = Tail(gdb_line) /\ gdb_lost' = TRUE
  /\ UNCHANGED <<gdb, gdb_sent>>

\* The end of gdb_get_packet, and the rest of the command's branch.
served ==
  [gdb EXCEPT !.phase = IF gdb.serving = "c" THEN "returned" ELSE "command",
              !.obeyed = IF gdb.serving \in Command THEN @ \cup {gdb.serving} ELSE @,
              !.replies = IF gdb.serving = "c" THEN @ ELSE @ + 1]

\* The switch on the first character; 'k' stops without a packet.
commanded(sign) ==
  IF sign = "k" THEN [gdb EXCEPT !.phase = "halted", !.obeyed = @ \cup {"k"}]
  ELSE [gdb EXCEPT !.phase = "sync", !.serving = sign]

\* gdb_stub_enter and gdb_get_packet, a character at a time.
gdb_get_char ==
  /\ gdb_line # <<>> /\ gdb.phase \notin {"returned", "halted"}
  /\ LET sign == Head(gdb_line)
     IN  gdb' = CASE gdb.phase = "command" -> commanded(sign)
                  [] gdb.phase = "sync" -> IF sign = "$" THEN [gdb EXCEPT !.phase = "body"] ELSE gdb
                  [] gdb.phase = "body" -> IF sign = "#" THEN [gdb EXCEPT !.phase = "sum"] ELSE gdb
                  [] gdb.phase = "sum" -> [gdb EXCEPT !.phase = "sum2"]
                  [] gdb.phase = "sum2" -> served
  /\ gdb_line' = Tail(gdb_line)
  /\ UNCHANGED <<gdb_lost, gdb_sent>>

GdbNext ==
  \/ \E sign \in {"+", "-", "break"} : host_sends(<<sign>>)
  \/ \E command \in Command : host_sends(packet(command))
  \/ line_loses \/ gdb_get_char

\* Whatever packets, acknowledgements and interrupts a debugger sends, the stub
\* obeys no command and does not return, since it looks for the command before
\* the packet and not in it: its every reply is the empty one, at most one for
\* two sends.  Only a character lost on the line can make it take a sign of a
\* packet for a command (gdb_stub_enter, gdb_get_packet).
GdbDeaf ==
  ~gdb_lost => /\ gdb.obeyed = {} /\ gdb.phase \notin {"returned", "halted"}
               /\ 2 * gdb.replies <= gdb_sent

-----------------------------------------------------------------------------
(* gdb_stub.c, the breakpoints.                                            *)

bp_init == bp = <<>> /\ bp_memory = [a \in GdbAddr |-> "code"] /\ bp_twice = FALSE

gdb_set_breakpoint(addr) ==
  /\ Len(bp) < GDB_BP_MAX
  /\ bp' = Append(bp, [addr |-> addr, saved |-> bp_memory[addr]])
  /\ bp_memory' = [bp_memory EXCEPT ![addr] = "int3"]
  /\ bp_twice' = (bp_twice \/ \E i \in DOMAIN bp : bp[i].addr = addr)

without_entry(i) == Front([bp EXCEPT ![i] = Last(bp)])

\* The first entry of the address is cleared.
gdb_clear_breakpoint(addr) ==
  LET entries == {i \in DOMAIN bp : bp[i].addr = addr}
  IN  /\ entries # {}
      /\ bp' = without_entry(Min(entries))
      /\ bp_memory' = [bp_memory EXCEPT ![addr] = bp[Min(entries)].saved]
      /\ UNCHANGED bp_twice

BpNext == \E addr \in GdbAddr : gdb_set_breakpoint(addr) \/ gdb_clear_breakpoint(addr)

\* Until an address is set that is set already, whose saved byte is then the
\* breakpoint's own, the code is as it was but for an int3 at the addresses in
\* the table, each there once with the byte it replaced (gdb_set_breakpoint,
\* gdb_clear_breakpoint).
BpBooks ==
  ~bp_twice =>
    /\ \A a \in GdbAddr : bp_memory[a] = "int3" <=> \E i \in DOMAIN bp : bp[i].addr = a
    /\ \A i, j \in DOMAIN bp : bp[i].saved = "code" /\ (bp[i].addr = bp[j].addr => i = j)

-----------------------------------------------------------------------------
\* Every console's state is of its type.
ConsolesTypeOK ==
  /\ klog.tail <= klog.head /\ klog.head - klog.tail <= LOG_BUF_SIZE
  /\ logbuf_lock \in LogProc \cup {NOBODY} /\ console_loglevel \in LogLevel
  /\ kbd.head \in 0..(KBD_BUFFER_SIZE - 1) /\ kbd.tail \in 0..(KBD_BUFFER_SIZE - 1)
  /\ \A r \in KbdReader : kbd_reader[r] \in {"idle", "read", "poll"}
  /\ ps2.modifiers \subseteq {"LSHIFT", "LCTRL"} \cup Lock /\ ps2.led \subseteq Lock
  /\ Len(ps2.packet) <= 3 /\ Len(ps2.ring) < MOUSE_BUFFER_SIZE
  /\ gdb.phase \in {"command", "sync", "body", "sum", "sum2", "returned", "halted"}
  /\ Len(bp) <= GDB_BP_MAX /\ bp_memory \in [GdbAddr -> {"code", "int3"}]
=============================================================================
