----------------------------- MODULE TxDisplay ------------------------------
(***************************************************************************)
(* What the node displays of a transaction it has executed, and of an      *)
(* eth_call: gas details, storage logs and their pubdata, the calls and    *)
(* the events, with names that the signature directory is asked for.       *)
(*                                                                         *)
(* All of it runs with the node's write lock held, between the execution   *)
(* and the commit.  A panic there poisons the lock: the transaction is not *)
(* committed, and no request is served any more.                           *)
(*                                                                         *)
(* What the VM returned is drawn when it is displayed, item by item.       *)
(***************************************************************************)
EXTENDS Integers

CONSTANTS
  Selectors, Topics,    \* four-byte signatures of functions; topics of events
  KnownSignatures,      \* those built into the node
  Listed,               \* what the directory has for each: "name", "filtered"
                        \* (no name is to be used) or "missing"
  Slots,
  FreeSlots,            \* of the system context, and the bootloader's balance
  WriteCosts,           \* bytes of pubdata of a write after compression
  GasRuns,              \* what the bootloader does with the gas of a transaction;
                        \* the operator charges at least for a slot of the block
  TRUSTED_GAS_LIMIT, INTRINSIC_OVERHEAD,
  NEAR_CALL_COST,       \* gas around a near call, outside of its own limit
  MaxItems,             \* bound: logs, calls or events of one transaction
  None

VARIABLES
  settings,    \* what is displayed
  phase,       \* what is being displayed, "idle" when the lock is free
  items,       \* how many logs, calls or events have been displayed
  debug,       \* the transaction's BootloaderDebug, once loaded, or None
  cost_paid,   \* [slots -> pubdata of the last write]
  payments,    \* history: [slots -> record of the payments displayed]
  CACHE,       \* [signatures -> name or None]
  answers,     \* history: [signatures -> how often the directory answered]
  poisoned     \* why the display panicked, or None

(* Gas and pubdata are unsigned; the operator charges for a slot at least. *)
(* The reasons to stop the node are told apart.                            *)
DisplayAssumption ==
  /\ None \notin Selectors \cup Topics /\ "gas_details" \notin Selectors \cup Topics \cup {None}
  /\ WriteCosts \subseteq Nat
  /\ TRUSTED_GAS_LIMIT \in Nat /\ INTRINSIC_OVERHEAD \in Nat /\ NEAR_CALL_COST \in Nat
  /\ GasRuns \subseteq [limit : Nat, operator : Nat \ {0}, required : Nat,
                        validation : Nat, deps : Nat, body : Nat]

vars == <<settings, phase, items, debug, cost_paid, payments, CACHE, answers, poisoned>>

with(f, key, value) == [k \in DOMAIN f \cup {key} |-> IF k = key THEN value ELSE f[k]]
larger(a, b) == IF a > b THEN a ELSE b
smaller(a, b) == IF a < b THEN a ELSE b

-----------------------------------------------------------------------------
(***************************************************************************)
(* Settings.  A value that does not parse leaves them as they are.         *)
(***************************************************************************)
ShowCalls == {"None", "User", "System", "All"}
ShowStorageLogs == {"None", "Read", "Write", "Paid", "All"}
ShowVMDetails == {"None", "All"}
ShowGasDetails == {"None", "All"}

lockIsFree == phase = "idle" /\ poisoned = None

Set(setting, values, value) ==
  /\ lockIsFree
  /\ settings' = IF value \in values THEN [settings EXCEPT ![setting] = value] ELSE settings
  /\ UNCHANGED <<phase, items, debug, cost_paid, payments, CACHE, answers, poisoned>>

config_set_show_calls(value) == Set("show_calls", ShowCalls, value)
config_set_show_storage_logs(value) == Set("show_storage_logs", ShowStorageLogs, value)
config_set_show_vm_details(value) == Set("show_vm_details", ShowVMDetails, value)
config_set_show_gas_details(value) == Set("show_gas_details", ShowGasDetails, value)
config_set_resolve_hashes(value) == Set("resolve_hashes", BOOLEAN, value)

Configure ==
  \/ \E value \in ShowCalls \cup {"unknown"} : config_set_show_calls(value)
  \/ \E value \in ShowStorageLogs \cup {"unknown"} : config_set_show_storage_logs(value)
  \/ \E value \in ShowVMDetails \cup {"unknown"} : config_set_show_vm_details(value)
  \/ \E value \in ShowGasDetails \cup {"unknown"} : config_set_show_gas_details(value)
  \/ \E value \in BOOLEAN : config_set_resolve_hashes(value)

-----------------------------------------------------------------------------
(***************************************************************************)
(* Gas details.                                                            *)
(***************************************************************************)
total(run) == smaller(run.limit, TRUSTED_GAS_LIMIT)

(* getGasLimitForTx asserts on an operator that charges too much.          *)
overheadIsVerified(run) == run.operator <= total(run) /\ run.operator <= run.required

gasLimitForTx(run) == larger(0, total(run) - run.operator - INTRINSIC_OVERHEAD)

(* l2TxValidation reverts the bootloader when no gas is left.              *)
isValid(run) == run.validation < gasLimitForTx(run)
gasLeft(run) == gasLimitForTx(run) - run.validation

(* A near call takes its limit at most, and NEAR_CALL_COST around it.      *)
nearCall(limit, need) == smaller(limit, need) + NEAR_CALL_COST

gasSpentOnFactoryDeps(run) == nearCall(gasLeft(run), run.deps)

gasSpentOnExecute(run) ==
  LET left == gasLeft(run) - gasSpentOnFactoryDeps(run)
  IN  IF left > 0 THEN gasSpentOnFactoryDeps(run) + nearCall(left, run.body) ELSE gasLeft(run)

(* The slots the bootloader has written when it ends: none, those before   *)
(* the validation, or all.                                                 *)
slotsWritten(run) ==
  CASE ~overheadIsVerified(run) -> {}
    [] overheadIsVerified(run) /\ ~isValid(run) -> {0, 1, 2, 4, 10, 11, 12}
    [] OTHER -> {0, 1, 2, 4, 5, 6, 7, 8, 10, 11, 12}

debugSlots(run) ==
  [slot \in slotsWritten(run) |->
     CASE slot = 0 -> 1337
       [] slot = 1 -> run.limit
       [] slot = 2 -> run.limit - total(run)
       [] slot = 4 -> gasLimitForTx(run)
       [] slot = 5 -> gasLeft(run)
       [] slot = 6 -> gasSpentOnExecute(run)
       [] slot = 7 -> gasSpentOnFactoryDeps(run)
       [] slot = 8 -> larger(0, gasLeft(run) - gasSpentOnExecute(run))
       [] slot = 10 -> INTRINSIC_OVERHEAD
       [] slot = 11 -> run.operator
       [] slot = 12 -> run.required]

(***************************************************************************)
(* A request takes the lock and executes; then what it displays is:        *)
(* the gas details, the storage logs, the calls and the events of a        *)
(* transaction, or the calls of an eth_call.                               *)
(***************************************************************************)
run_l2_tx_raw ==
  /\ lockIsFree
  /\ phase' = "gas"
  /\ UNCHANGED <<settings, items, debug, cost_paid, payments, CACHE, answers, poisoned>>

run_l2_call ==
  /\ lockIsFree
  /\ phase' = "eth_call"
  /\ UNCHANGED <<settings, items, debug, cost_paid, payments, CACHE, answers, poisoned>>

(* eth_call.  What is no transaction is refused before; what the VM        *)
(* returned, reverted with or halted for is answered when the lock is free *)
(* again.                                                                  *)
call(isTransaction) == IF isTransaction THEN run_l2_call ELSE UNCHANGED vars

after ==
  CASE phase = "gas" -> "logs"
    [] phase = "logs" -> "calls"
    [] phase = "calls" -> "events"
    [] phase \in {"events", "eth_call"} -> "idle"

\* What is displayed next; what was displayed is forgotten.
Continue ==
  /\ phase' = after
  /\ items' = 0 /\ debug' = None /\ cost_paid' = <<>> /\ payments' = <<>>

EndPhase ==
  /\ phase # "idle" /\ poisoned = None
  /\ phase = "gas" => settings.show_gas_details = "None" \/ debug # None
  /\ Continue
  /\ UNCHANGED <<settings, CACHE, answers, poisoned>>

\* Mutant: the gas that is reserved is read from the slot after its own.
load_from_memory_wrongSlot(slots) ==
  LET slot(n) == IF n \in DOMAIN slots THEN slots[n] ELSE 0
  IN  IF slot(0) # 1337 THEN None
      ELSE [total_gas_limit_from_user |-> slot(1), reserved_gas |-> slot(3),
            gas_limit_after_intrinsic |-> slot(4), gas_after_validation |-> slot(5),
            gas_spent_on_execution |-> slot(6),
            gas_spent_on_bytecode_preparation |-> slot(7), refund_computed |-> slot(8),
            intrinsic_overhead |-> slot(10), operator_overhead |-> slot(11),
            required_overhead |-> slot(12)]

(* A slot that was not written is zero; without the sentinel nothing is    *)
(* loaded.                                                                 *)
load_from_memory(slots) ==
  LET slot(n) == IF n \in DOMAIN slots THEN slots[n] ELSE 0
  IN  IF slot(0) # 1337 THEN None
      ELSE [total_gas_limit_from_user |-> slot(1), reserved_gas |-> slot(2),
            gas_limit_after_intrinsic |-> slot(4), gas_after_validation |-> slot(5),
            gas_spent_on_execution |-> slot(6),
            gas_spent_on_bytecode_preparation |-> slot(7), refund_computed |-> slot(8),
            intrinsic_overhead |-> slot(10), operator_overhead |-> slot(11),
            required_overhead |-> slot(12)]

total_gas_limit(d) == larger(0, d.total_gas_limit_from_user - d.reserved_gas)
intrinsic_gas(d) == total_gas_limit(d) - d.gas_limit_after_intrinsic
gas_for_validation(d) == d.gas_limit_after_intrinsic - d.gas_after_validation
gas_spent_on_compute(d) == d.gas_spent_on_execution - d.gas_spent_on_bytecode_preparation

gas_used(d) ==
  intrinsic_gas(d) + gas_for_validation(d) + d.gas_spent_on_bytecode_preparation
    + gas_spent_on_compute(d)

(* Differences and shares of U256: below zero, or of zero, they panic.     *)
(* It also divides by gas_per_pubdata and by total_overhead_for_block,     *)
(* which are positive as the L1 gas price is.                              *)
displayPanics(d) ==
  \/ \E difference \in {intrinsic_gas(d), gas_for_validation(d), gas_spent_on_compute(d),
                        d.required_overhead - d.operator_overhead} : difference < 0
  \/ 0 \in {gas_used(d), intrinsic_gas(d), d.required_overhead}

display_detailed_gas_info(run) ==
  LET loaded == load_from_memory(debugSlots(run))
  IN  /\ phase = "gas" /\ poisoned = None /\ debug = None
      /\ settings.show_gas_details = "All"
      /\ IF loaded = None
           THEN Continue /\ UNCHANGED poisoned
           ELSE /\ debug' = loaded
                /\ poisoned' = IF displayPanics(loaded) THEN "gas_details" ELSE None
                /\ UNCHANGED <<phase, items, cost_paid, payments>>
      /\ UNCHANGED <<settings, CACHE, answers>>

-----------------------------------------------------------------------------
(***************************************************************************)
(* Storage logs.  A write pays for the pubdata that earlier writes to its  *)
(* slot have not paid for.                                                 *)
(***************************************************************************)
NextItem(wanted) == wanted /\ poisoned = None /\ items < MaxItems /\ items' = items + 1

paidBefore(slot) == IF slot \in DOMAIN cost_paid THEN cost_paid[slot] ELSE 0

(* Paid, AdditionalPayment with the slot's total, or PaidAlready.          *)
toPay(slot, cost) == larger(0, cost - paidBefore(slot))

(* The writes that pay are displayed by these settings alike.              *)
displaysPayments == settings.show_storage_logs \in {"Write", "Paid", "All"}

recorded(slot, cost) ==
  LET before == IF slot \in DOMAIN payments THEN payments[slot]
                ELSE [bytes |-> 0, total |-> 0, shrank |-> FALSE, regrew |-> FALSE]
      pays == toPay(slot, cost) > 0
  IN  [bytes |-> before.bytes + toPay(slot, cost),
       total |-> IF pays THEN cost ELSE before.total,
       shrank |-> before.shrank \/ cost < paidBefore(slot),
       regrew |-> before.regrew \/ (before.shrank /\ pays)]

\* Mutant: only the first write is remembered.
nowPaid_first(slot, cost) ==
  IF slot \in DOMAIN cost_paid THEN cost_paid ELSE with(cost_paid, slot, cost)

nowPaid(slot, cost) == with(cost_paid, slot, cost)

PrintWrite(slot, cost) ==
  /\ NextItem(phase = "logs" /\ settings.show_storage_logs # "None")
  /\ cost_paid' = IF slot \in FreeSlots THEN cost_paid ELSE nowPaid(slot, cost)
  /\ payments' = IF slot \notin FreeSlots /\ displaysPayments
                   THEN with(payments, slot, recorded(slot, cost)) ELSE payments
  /\ UNCHANGED <<settings, phase, debug, CACHE, answers, poisoned>>

-----------------------------------------------------------------------------
(***************************************************************************)
(* Calls and events, and the names of their signatures.                    *)
(***************************************************************************)
ContractTypes == {"System", "Precompile", "Popular", "Unknown"}

should_print(contract_type) ==
  \/ settings.show_calls = "All"
  \/ settings.show_calls # "None" /\ contract_type \in {"Unknown", "Popular"}
  \/ settings.show_calls = "System" /\ contract_type = "System"

(* The signature of a call that is displayed, unless its bytes are.        *)
NamesCall(contract_type, selector) ==
  /\ should_print(contract_type)
  /\ contract_type # "Precompile" /\ settings.resolve_hashes
  /\ selector \in Selectors

NamesEvent(topic) == settings.resolve_hashes /\ topic \in Topics

\* An item without a signature to be resolved.
PrintBytes ==
  /\ \/ /\ phase \in {"calls", "eth_call"}
        /\ \E contract_type \in ContractTypes, selector \in Selectors \cup {None} :
             ~NamesCall(contract_type, selector)
     \/ phase = "events" /\ ~settings.resolve_hashes
  /\ NextItem(TRUE)
  /\ UNCHANGED <<settings, phase, debug, cost_paid, payments, CACHE, answers, poisoned>>

wantsName(signature) ==
  \/ /\ phase \in {"calls", "eth_call"}
     /\ \E contract_type \in ContractTypes : NamesCall(contract_type, signature)
  \/ phase = "events" /\ NamesEvent(signature)

isAnswered(signature) == signature \in DOMAIN CACHE \/ signature \in KnownSignatures

(* decode_function_selector keeps a known name, decode_event_selector does *)
(* not.                                                                    *)
PrintName(signature) ==
  /\ NextItem(wantsName(signature) /\ isAnswered(signature))
  /\ CACHE' = IF signature \in Selectors /\ signature \notin DOMAIN CACHE
                THEN with(CACHE, signature, "name") ELSE CACHE
  /\ UNCHANGED <<settings, phase, debug, cost_paid, payments, answers, poisoned>>

\* Mutant: only names are kept.
keeps_names(signature) == Listed[signature] = "name"

keeps(signature) == Listed[signature] # "missing"

(* The directory answers with a name, or that the name is not to be used.  *)
AskDirectory(signature) ==
  /\ NextItem(wantsName(signature) /\ ~isAnswered(signature) /\ Listed[signature] # "missing")
  /\ CACHE' = IF keeps(signature)
                THEN with(CACHE, signature,
                          IF Listed[signature] = "name" THEN "name" ELSE None)
                ELSE CACHE
  /\ answers' = [answers EXCEPT ![signature] = @ + 1]
  /\ UNCHANGED <<settings, phase, debug, cost_paid, payments, poisoned>>

(* It does not have the signature, does not answer, or not in time: the    *)
(* error is unwrapped.                                                     *)
DirectoryFails(signature) ==
  /\ NextItem(wantsName(signature) /\ ~isAnswered(signature))
  /\ poisoned' = signature
  /\ UNCHANGED <<settings, phase, debug, cost_paid, payments, CACHE, answers>>

-----------------------------------------------------------------------------
Init ==
  /\ settings \in [show_calls : ShowCalls, show_storage_logs : ShowStorageLogs,
                   show_vm_details : ShowVMDetails, show_gas_details : ShowGasDetails,
                   resolve_hashes : BOOLEAN]
  /\ phase = "idle" /\ items = 0
  /\ debug = None /\ cost_paid = <<>> /\ payments = <<>>
  /\ CACHE = <<>> /\ answers = [signature \in Selectors \cup Topics |-> 0]
  /\ poisoned = None

(* A node whose lock is poisoned answers every request with an error.      *)
Stopped == poisoned # None /\ UNCHANGED vars

Next ==
  \/ Configure
  \/ run_l2_tx_raw
  \/ \E isTransaction \in BOOLEAN : call(isTransaction)
  \/ EndPhase
  \/ \E run \in GasRuns : display_detailed_gas_info(run)
  \/ \E slot \in Slots, cost \in WriteCosts : PrintWrite(slot, cost)
  \/ PrintBytes
  \/ \E signature \in Selectors \cup Topics :
       PrintName(signature) \/ AskDirectory(signature) \/ DirectoryFails(signature)
  \/ Stopped

Spec == Init /\ [][Next]_vars

-----------------------------------------------------------------------------
(***************************************************************************)
(* Properties.                                                             *)
(***************************************************************************)

(* The details of a transaction's gas: setup, validation, preparation and  *)
(* execution take what the limit and the refund leave, and at most what is *)
(* spent around one near call on top; the setup is the two overheads       *)
(* unless they exhaust the limit.  No difference goes below zero but that  *)
(* of the execution and the preparation of bytecodes, when the preparation *)
(* has taken more than the validation left.                                *)
GasDetailsAddUp ==
  debug # None =>
    LET setup == debug.intrinsic_overhead + debug.operator_overhead
        left == debug.gas_after_validation
        surplus == gas_used(debug) + debug.refund_computed - total_gas_limit(debug)
    IN  /\ intrinsic_gas(debug) = smaller(setup, total_gas_limit(debug))
        /\ IF poisoned = None
             THEN surplus \in 0 .. NEAR_CALL_COST /\ (debug.refund_computed > 0 => surplus = 0)
             ELSE /\ debug.gas_spent_on_bytecode_preparation > left
                  /\ debug.gas_spent_on_execution = left

(* What is displayed as paid for a slot is never less than the total that  *)
(* is displayed with it, and is that total as long as the slot's pubdata   *)
(* has not shrunk and grown again.                                         *)
PaymentsCoverTotal ==
  \A slot \in DOMAIN payments :
    /\ payments[slot].bytes >= payments[slot].total
    /\ ~payments[slot].regrew => payments[slot].bytes = payments[slot].total

(* The directory answers for a signature once, whether with a name or not, *)
(* in whatever order calls, events and requests come; what it has answered *)
(* cannot stop the node later.                                             *)
DirectoryAnswersOnce ==
  \A signature \in Selectors \cup Topics :
    /\ answers[signature] <= 1
    /\ answers[signature] = 1 => poisoned # signature

-----------------------------------------------------------------------------
(* What the repository says of the program, and the code does not do.      *)

(* Displaying more makes the log more readable; the node serves on.        *)
NodeSurvivesDisplay == poisoned = None
=============================================================================
