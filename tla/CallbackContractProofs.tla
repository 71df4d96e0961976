------------------------ MODULE CallbackContractProofs ------------------------
(***************************************************************************)
(* What the contract of a callback entails for its owner, for any set of   *)
(* callbacks.                                                               *)
(***************************************************************************)
EXTENDS CallbackContract, TLAPS

\* A callback whose removal was answered is retired and nobody executes it.
AnsweredIsQuiet == \A c \in answered : life[c] = "retired" /\ running[c] = 0

ContractInv ==
    /\ life \in [Callbacks -> {"unknown", "registered", "retired"}]
    /\ running \in [Callbacks -> Nat]
    /\ answered \subseteq Callbacks
    /\ AnsweredIsQuiet

LEMMA ContractInductive == ContractInv /\ [Next]_contract => ContractInv'
<1> SUFFICES ASSUME ContractInv, [Next]_contract
             PROVE  ContractInv'
  OBVIOUS
<1> USE DEF ContractInv, AnsweredIsQuiet
<1>1. ASSUME NEW c \in Callbacks, Register(c)
      PROVE  ContractInv'
  BY <1>1 DEF Register
<1>2. ASSUME NEW c \in Callbacks, Begin(c)
      PROVE  ContractInv'
  BY <1>2 DEF Begin
<1>3. ASSUME NEW c \in Callbacks, End(c)
      PROVE  ContractInv'
  BY <1>3 DEF End
<1>4. ASSUME NEW c \in Callbacks, Retire(c)
      PROVE  ContractInv'
  BY <1>4 DEF Retire
<1>5. ASSUME NEW c \in Callbacks, Answer(c)
      PROVE  ContractInv'
  BY <1>5 DEF Answer
<1>6. CASE UNCHANGED contract
  BY <1>6 DEF contract
<1> QED
  BY <1>1, <1>2, <1>3, <1>4, <1>5, <1>6 DEF Next

\* The contract suffices for an owner to unload a callback's code as soon as
\* its removal has been answered, as a C++ mod that unloads itself does.
THEOREM AnsweredStaysQuiet == Spec => []AnsweredIsQuiet
<1>1. Init => ContractInv
  BY DEF Init, ContractInv, AnsweredIsQuiet
<1>2. ContractInv => AnsweredIsQuiet
  BY DEF ContractInv
<1> QED
  BY <1>1, <1>2, ContractInductive, PTL DEF Spec
=============================================================================
