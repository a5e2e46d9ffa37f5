----------------------------- MODULE PetCommands -----------------------------
(***************************************************************************)
(* What each command does to the session: the tenures of the daemon it     *)
(* takes, the calls each makes in order, and what its finally clause sends *)
(* (src/src/petlib/cli.py, mcp_server.py, ops.py, testing.py).  Only       *)
(* commands that reach the emulator are here; what they print is not.      *)
(***************************************************************************)
EXTENDS Naturals, Sequences

Done == 0           \* the position after the last call of a body

(* One call of a body and the positions that may follow its answer; `last` *)
(* are those left once the deadline of the loop around it has passed.      *)
Loop(method, next, last) == [call |-> method, next |-> next, last |-> last]
Do(method, next) == Loop(method, next, next)

Straight(methods) ==
    [i \in 1 .. Len(methods) |->
        Do(methods[i], IF i = Len(methods) THEN {Done} ELSE {i + 1})]

(***************************************************************************)
(* A stage of a command: one `with session.monitor()` block, or the start  *)
(* or the end of the emulator.  `polls` is how many stages a loop around   *)
(* it goes back (0: no loop), `judged` whether its answer may be found     *)
(* wanting, `late` whether that ends the command ("end") or goes to a      *)
(* test's final screen ("report"), `catches` the errors swallowed.         *)
(***************************************************************************)
Stage(kind, body, finally) ==
    [kind |-> kind, body |-> body, finally |-> finally, catches |-> {},
     polls |-> 0, judged |-> FALSE, late |-> "end"]

Tenure(body, finally) == Stage("tenure", body, finally)
Observe(methods)   == Tenure(Straight(methods), "release")
Restart(methods)   == Tenure(Straight(methods), "resume")
Bare(methods)      == Tenure(Straight(methods), "none")
Poll(stage)        == [stage EXCEPT !.polls = 1, !.judged = TRUE]
Judged(stage)      == [stage EXCEPT !.judged = TRUE]
Back(stage, n)     == [stage EXCEPT !.polls = n]
Quietly(stage, errors) == [stage EXCEPT !.catches = errors]

(* cleanup: where the script's own finally begins; report: a test's screen *)
Script(stages) == [stages |-> stages, cleanup |-> Len(stages) + 1,
                   report |-> Len(stages) + 1]
Only(stage) == {Script(<<stage>>)}

-----------------------------------------------------------------------------
(***************************************************************************)
(* ops.py, screen.py, romdoc.py, session.py                                *)
(***************************************************************************)
read_screen == Observe(<<"memory_read">>)

wait_for_text == Poll(read_screen)
wait_for_mem  == Poll(Observe(<<"memory_read">>))

(* The list's halt is undone by resume; a hit flag or a stop ends the wait, *)
(* and the deadline ends it running (position 5).                          *)
wait_for_break ==
    Tenure(<<Loop("checkpoint_list", {2, 4, 5}, {4, 5}),
             Do("resume", {3}),
             Do("wait_for_stop", {1, 4}),
             Do("registers", {Done}),
             Do("resume", {Done})>>, "none")

(* A stack frame, registers, the trap; then resume and wait until it hits. *)
call_routine ==
    Tenure(<<Do("registers", {2}),
             Do("memory_write", {3}),
             Do("memory_write", {4}),
             Loop("set_register", {4, 5}, {5}),
             Do("checkpoint_set", {6}),
             Loop("resume", {7, 9}, {9}),
             Do("wait_for_stop", {8, 11}),
             Do("checkpoint_list", {6, 11}),
             Do("checkpoint_delete", {10}),
             Do("resume", {Done}),
             Do("registers", {12}),
             Do("checkpoint_delete", {Done})>>, "none")

run_until == Bare(<<"run_until">>)

(* A poke that releases nothing, then run_until, for each frame.           *)
ops_key_hold == <<Bare(<<"memory_write">>), Back(run_until, 2)>>

clear_checkpoints ==
    Tenure(<<Do("checkpoint_list", {2, Done}),
             Loop("checkpoint_delete", {2, Done}, {Done})>>, "release")

(* machine_state opens a tenure of its own and reports "unknown" when the  *)
(* connection fails.                                                       *)
machine_state == Quietly(Bare(<<"status">>), {"os"})

identify == Observe(<<"resource_get", "resource_get", "resource_get",
                      "memory_read", "memory_read", "memory_read">>)

(* Session.launch, ensure and stop: quit, then the signals.                *)
Launch == Stage("launch", <<>>, "none")
Ensure == Stage("ensure", <<>>, "none")
quittingLoud == Quietly(Bare(<<"quit">>), {"os"})   \* mutant: SessionError escapes
quitting == Quietly(Bare(<<"quit">>), {"os", "session"})
stop == <<quitting, Stage("kill", <<>>, "none")>>

-----------------------------------------------------------------------------
(***************************************************************************)
(* cli.py.  A command with alternatives is the set of them.                *)
(***************************************************************************)
session_start  == Only(Launch)
session_ensure == Only(Ensure)
session_stop   == {Script(stop)}
session_reset  == Only(Bare(<<"reset", "resume">>))
screen_cmd     == {Script(<<Observe(<<"display", "palette">>)>>), Script(<<read_screen>>)}
status_cmd     == Only(machine_state)
mem_read       == Only(Observe(<<"memory_read">>))
mem_write      == Only(Tenure(<<Loop("memory_write", {1, Done}, {Done})>>, "release"))
mem_getRuns    == Only(Restart(<<"memory_read">>))  \* mutant: resume for release
mem_get        == Only(Observe(<<"memory_read">>))
mem_find       == Only(Observe(<<"memory_read">>))
reg            == {Script(<<Observe(<<"registers">>), machine_state>>)}
reg_set        == Only(Observe(<<"set_register">>))
basic_type     == Only(Observe(<<"keyboard_feed">>))
load_cmd       == Only(Restart(<<"autostart">>))
run_cmd        == Only(Restart(<<"autostart">>))
break_add      == {Script(<<Observe(<<"checkpoint_set">>)>>),
                   Script(<<Observe(<<"checkpoint_set", "condition_set">>)>>)}
break_list     == Only(Observe(<<"checkpoint_list">>))
break_remove   == Only(Observe(<<"checkpoint_delete">>))
break_enable   == Only(Observe(<<"checkpoint_toggle">>))
break_disable  == Only(Observe(<<"checkpoint_toggle">>))
break_clear    == Only(clear_checkpoints)
watch_add      == Only(Observe(<<"checkpoint_set">>))
watch_clear    == Only(clear_checkpoints)
step_cmd       == Only(Bare(<<"step">>))
finish_cmd     == Only(Bare(<<"finish">>))
continue_cmd   == Only(Bare(<<"resume">>))
until_cmd      == Only(run_until)
call_cmd       == Only(call_routine)
wait_cmd       == {Script(<<w>>) : w \in {wait_for_break, wait_for_text, wait_for_mem}}
disk_boot      == Only(Restart(<<"autostart">>))
rom_info       == Only(identify)
rom_disasm     == Only(Observe(<<"memory_read">>))
key_type       == Only(Observe(<<"keyboard_feed">>))
key_hold       == {Script(ops_key_hold)}

-----------------------------------------------------------------------------
(***************************************************************************)
(* testing.py.  A test launches a session of its own; whatever happens     *)
(* after that, it stops it.  Its steps are stages; one that fails leads to *)
(* the final screen.                                                       *)
(***************************************************************************)
step_key    == Observe(<<"keyboard_feed">>)
step_poke   == Observe(<<"memory_write">>)
step_call   == call_routine
step_until  == run_until
step_wait   == Poll(Observe(<<"memory_read">>))
step_assert == {Judged(Observe(<<"memory_read">>)), Judged(Observe(<<"registers">>))}

StepStages(kind) ==
    CASE kind = "key"    -> {step_key}
      [] kind = "poke"   -> {step_poke}
      [] kind = "call"   -> {step_call}
      [] kind = "until"  -> {step_until}
      [] kind = "wait"   -> {step_wait}
      [] kind = "assert" -> step_assert

Steps(kinds) ==
    {s \in [1 .. Len(kinds) -> UNION {StepStages(kinds[i]) : i \in 1 .. Len(kinds)}] :
        \A i \in 1 .. Len(kinds) : s[i] \in StepStages(kinds[i])}

(* READY., the program, LOADING unless it runs by itself, steps, screen.   *)
run_test(program, kinds) ==
    LET boot == <<Launch, Poll(read_screen)>>
        load == CASE program = "none"    -> <<>>
                  [] program = "autorun" -> <<Observe(<<"autostart">>)>>
                  [] program = "load"    -> <<Observe(<<"autostart">>), Poll(read_screen)>>
        before == boot \o load
    IN  {[stages  |-> before \o [i \in 1 .. Len(kinds) |-> [s[i] EXCEPT !.late = "report"]]
                       \o <<read_screen>> \o stop,
          cleanup |-> Len(before) + Len(kinds) + 2,
          report  |-> Len(before) + Len(kinds) + 1] : s \in Steps(kinds)}

(* A program directory is a test that waits for each line it must print.   *)
program_test(lines) == run_test("autorun", [i \in 1 .. lines |-> "wait"])

test_run(kinds)      == UNION {run_test(p, kinds) : p \in {"none", "autorun", "load"}}
test_programs(lines) == program_test(lines)

(* The keys load_test wants and allows of the kinds of step it checks; the *)
(* older kinds it lets through as they are.                                *)
RequiredLess == [poke |-> {}, until |-> {"ref"}, call |-> {"routine"}]   \* mutant
Required == [poke |-> {"addr"}, until |-> {"ref"}, call |-> {"routine"}]
Allowed  == [poke  |-> {"addr", "value", "values"},
             until |-> {"ref", "count", "timeout"},
             call  |-> {"routine", "a", "x", "y", "timeout"}]

StepKinds == {"wait", "key", "assert"} \cup DOMAIN Required

StepLoads(kind, keys) ==
    /\ kind \in StepKinds
    /\ kind \in DOMAIN Required => Required[kind] \subseteq keys /\ keys \subseteq Allowed[kind]
    /\ kind = "poke" => keys \cap {"value", "values"} # {}

Comparisons == {"equals_text", "equals_any", "mask", "between"}

(* The keys _do_step may index without having asked for them.  What key is *)
(* given, and what mask and between are, has no keys of the step's own.    *)
WaitReads(keys) ==
    IF "text" \notin keys /\ "mem" \in keys THEN {"equals"} ELSE {}

AssertReads(keys) ==
    CASE "screen" \in keys -> {}
      [] "screen" \notin keys /\ "mem" \in keys ->
            IF keys \cap Comparisons # {} THEN {} ELSE {"equals"}
      [] keys \cap {"screen", "mem"} = {} ->
            IF "reg" \in keys /\ "equals" \notin keys THEN {"in_range"} ELSE {}

Reads(kind, keys) ==
    CASE kind = "poke"   -> {"addr"} \cup IF "values" \in keys THEN {"values"} ELSE {"value"}
      [] kind = "until"  -> {"ref"}
      [] kind = "call"   -> {"routine"}
      [] kind = "key"    -> {}
      [] kind = "wait"   -> WaitReads(keys)
      [] kind = "assert" -> AssertReads(keys)

-----------------------------------------------------------------------------
(***************************************************************************)
(* mcp_server.py                                                           *)
(***************************************************************************)
pet_session_start  == Only(Launch)
pet_session_ensure == Only(Ensure)
pet_session_stop   == {Script(stop)}
pet_session_reset  == Only(Restart(<<"reset">>))
pet_status         == Only(machine_state)
pet_screen_text    == Only(read_screen)
pet_screen_codes   == Only(Observe(<<"memory_read">>))
pet_screenshot     == Only(Observe(<<"display", "palette">>))
pet_mem_read       == Only(Observe(<<"memory_read">>))
pet_mem_find       == Only(Observe(<<"memory_read">>))
pet_mem_write      == Only(Observe(<<"memory_write">>))
pet_reg_get        == {Script(<<Observe(<<"registers">>), machine_state>>)}
pet_reg_set        == Only(Observe(<<"set_register">>))
pet_break_add      == {Script(<<Observe(<<"checkpoint_set">>)>>),
                       Script(<<Observe(<<"checkpoint_set", "condition_set">>)>>)}
pet_break_list     == Only(Observe(<<"checkpoint_list">>))
pet_break_remove   == Only(Observe(<<"checkpoint_delete">>))
pet_break_clear    == Only(clear_checkpoints)
pet_watch_clear    == Only(clear_checkpoints)
pet_watch_add      == Only(Observe(<<"checkpoint_set">>))
pet_step           == Only(Bare(<<"step">>))
pet_finish         == Only(Bare(<<"finish">>))
pet_continue       == Only(Bare(<<"resume">>))
pet_until          == Only(run_until)
pet_wait_text      == Only(wait_for_text)
pet_wait_mem       == Only(wait_for_mem)
pet_call           == Only(call_routine)
pet_wait_break     == Only(wait_for_break)
pet_run            == Only(Restart(<<"autostart">>))
pet_load           == Only(Restart(<<"autostart">>))
pet_basic_type     == Only(Observe(<<"keyboard_feed">>))
pet_key_type       == Only(Observe(<<"keyboard_feed">>))
pet_key_hold       == {Script(ops_key_hold)}
pet_disk_boot      == Only(Restart(<<"autostart">>))
pet_rom_info       == Only(identify)
pet_rom_disasm     == Only(Observe(<<"memory_read">>))
pet_test_run(kinds)      == test_run(kinds)
pet_test_programs(lines) == program_test(lines)

-----------------------------------------------------------------------------
(* The commands that docs/cli.md:36-37 calls inspections ("never disturb   *)
(* the state"), those whose own text says so, and the test steps that must *)
(* leave a machine stopped where an until step stopped it.                 *)
Inspections ==
    UNION {screen_cmd, status_cmd, mem_read, mem_write, mem_get, mem_find, reg, reg_set,
           basic_type, break_add, break_list, break_remove, break_enable, break_disable,
           break_clear, watch_add, watch_clear, rom_info, rom_disasm, key_type,
           pet_status, pet_screen_text, pet_screen_codes, pet_screenshot, pet_mem_read,
           pet_mem_find, pet_mem_write, pet_reg_get, pet_reg_set, pet_break_add,
           pet_break_list, pet_break_remove, pet_break_clear, pet_watch_clear,
           pet_watch_add, pet_wait_text, pet_wait_mem, pet_basic_type, pet_key_type,
           pet_rom_info, pet_rom_disasm}

Observing == (UNION {{s.stages[i] : i \in 1 .. Len(s.stages)} : s \in Inspections})
                \cup {[s EXCEPT !.late = "report"] :
                        s \in {step_key, step_poke, step_wait} \cup step_assert}
                \cup {read_screen, wait_for_text}
=============================================================================
