----------------------------- MODULE MCFrontends -----------------------------
(***************************************************************************)
(* One process that runs any command, or any small test, and a second that *)
(* takes its turn on the same session; and small inputs for what their     *)
(* commands compute.                                                       *)
(***************************************************************************)
EXTENDS Frontends

CONSTANTS Main, Other

Tests ==
    UNION {run_test("none", <<kind>>) : kind \in {"call", "until", "assert"}}
        \cup run_test("load", <<"key">>) \cup test_programs(1)

(* Commands of each shape; what the others do is the same but for names.   *)
Samples ==
    UNION {mem_get, break_clear, reg, status_cmd, wait_cmd, until_cmd, call_cmd,
           continue_cmd, session_reset, session_ensure, session_stop, run_cmd, key_hold}

OneOfEach == [c \in Client |-> IF c = Main THEN Samples \cup Tests ELSE continue_cmd]

StepAndWait == [c \in Client |-> IF c = Main THEN session_ensure \cup step_cmd ELSE wait_cmd]

(* What the proofs assume of a script holds of every command and tool.     *)
Commands ==
    Samples \cup Tests \cup Inspections
        \cup UNION {session_start, load_cmd, step_cmd, finish_cmd, disk_boot,
                   pet_session_start, pet_session_ensure, pet_session_stop, pet_session_reset,
                   pet_step, pet_finish, pet_continue, pet_until, pet_call, pet_wait_break,
                   pet_run, pet_load, pet_key_hold, pet_disk_boot,
                   pet_test_run(<<"wait", "poke">>), pet_test_programs(2)}

ASSUME CommandsWellFormed == \A script \in Commands : WellFormed(script)

-----------------------------------------------------------------------------
SmallPatterns == {<<1>>, <<1, 1>>, <<0, 1>>}

SymbolNames == {<<Name(1)>>, <<Name(2)>>, <<Name(1), Minus, Name(2)>>}
SmallMaps   == UNION {[names -> {0, 3, 300}] : names \in SUBSET SymbolNames}
Few         == -2 .. 2
=============================================================================
