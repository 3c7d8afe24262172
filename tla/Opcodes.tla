-------------------------------- MODULE Opcodes --------------------------------
(***************************************************************************)
(* The numbers of src/include/opcode.h.  NUM_READY_VARS is 32 in the code; *)
(* a small instance makes the long forms of PUT and PUSH as common as the  *)
(* short ones.                                                             *)
(***************************************************************************)
EXTENDS Integers, Sequences

CONSTANT NUM_READY_VARS

ASSUME OpcodeAssumption == NUM_READY_VARS \in 1..32

Ticking ==
  <<"IF", "WHILE", "EIF", "FORK", "FORK_WITH_ID", "FOR_LIST", "FOR_RANGE", "INDEXSET",
    "PUSH_GET_PROP", "GET_PROP", "CALL_VERB", "PUT_PROP", "BI_FUNC_CALL", "IF_QUES",
    "REF", "RANGE_REF", "MAKE_SINGLETON_LIST", "CHECK_LIST_FOR_SPLICE",
    "MULT", "DIV", "MOD", "ADD", "MINUS", "EQ", "NE", "LT", "LE", "GT", "GE", "IN",
    "AND", "OR", "UNARY_MINUS", "NOT">>

Free ==
  <<"IMM", "MAKE_EMPTY_LIST", "LIST_ADD_TAIL", "LIST_APPEND", "PUSH_REF", "PUT_TEMP",
    "PUSH_TEMP", "JUMP", "RETURN", "RETURN0", "DONE", "POP", "EXTENDED">>

Extended ==
  <<"RANGESET", "LENGTH", "PUSH_LABEL", "END_CATCH", "END_EXCEPT", "END_FINALLY",
    "CONTINUE", "CATCH", "TRY_EXCEPT", "TRY_FINALLY", "WHILE_ID", "EXIT", "EXIT_ID",
    "SCATTER", "EXP">>

OP_PUT == Len(Ticking)
OP_G_PUT == OP_PUT + NUM_READY_VARS
OP_PUSH == OP_G_PUT + 1
OP_G_PUSH == OP_PUSH + NUM_READY_VARS

ForEachVar(name) == [i \in 1..NUM_READY_VARS |-> name]
Opcodes_ ==
  Ticking \o ForEachVar("PUT") \o <<"G_PUT">> \o ForEachVar("PUSH") \o <<"G_PUSH">> \o Free
OPTIM_NUM_START == Len(Opcodes_)

Indices(names) == [x \in {names[i] : i \in DOMAIN names} |->
                     (CHOOSE i \in DOMAIN names : names[i] = x) - 1]
ExtendedIndex == Indices(Extended)
Eop(name) == ExtendedIndex[name]

\* The byte of an opcode that has only one
OpcodeIndex == Indices(Opcodes_)
Op(name) == OpcodeIndex[name]

OPTIM_NUM_LOW == -10
OPTIM_NUM_HI == 255 - OPTIM_NUM_START + OPTIM_NUM_LOW
IN_OPTIM_NUM_RANGE(i) == i \in OPTIM_NUM_LOW..OPTIM_NUM_HI
OPTIM_NUM_TO_OPCODE(i) == OPTIM_NUM_START + i - OPTIM_NUM_LOW
OPCODE_TO_OPTIM_NUM(b) == b - OPTIM_NUM_START + OPTIM_NUM_LOW

\* What a byte that starts an instruction means
Mnemonic(b) == IF b < OPTIM_NUM_START THEN Opcodes_[b + 1] ELSE "NUM"

\* Mutant: rounds of a loop are free.
COUNT_TICK_OutOfLoops(b) == b \in Op("EIF")..OP_G_PUT
COUNT_TICK(b) == b <= OP_G_PUT
COUNT_EOP_TICK(e) == e >= Eop("CATCH")
=============================================================================
