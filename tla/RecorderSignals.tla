-------------------------- MODULE RecorderSignals --------------------------
(***************************************************************************)
(* The signals of one recording (AdvancedRecorderSignal and the two signal *)
(* handlers) and the writer they share.  Each signal is driven by the      *)
(* thread that sends its packets: the input ports ask for same-thread      *)
(* notification, so signals of different devices call the writer           *)
(* concurrently and signals of one device take turns.                      *)
(*                                                                         *)
(* A descriptor pair is abstracted to the features that supports() and the *)
(* handler constructors look at; a packet to its descriptors and whether   *)
(* the handler finds the offset, or the amount of data, it requires.       *)
(***************************************************************************)
EXTENDS SieWriter

CONSTANTS
    Descriptors,    \* the descriptor pairs packets may carry
    MaxPackets      \* bound on the packets of one signal

VARIABLES
    nextGroup,      \* writer::next_group
    handler,        \* the group of each signal's handler, NoHandler if none
    lastDescriptor, \* lastValueDescriptor and lastDomainDescriptor
    task,           \* what each signal's thread is doing
    packets,        \* packets received so far (bound only)
    declaredAs      \* history: the descriptors each group was declared with

signalVars == <<nextGroup, handler, lastDescriptor, task, packets, declaredAs>>
rvars == <<vars, signalVars>>

Signals == Threads
NoHandler == METADATA
NoDescriptor == [unset |-> TRUE]

NoTask == [step |-> "none", descriptor |-> NoDescriptor, usable |-> FALSE, group |-> NoHandler]

-----------------------------------------------------------------------------
(* Which handler a descriptor pair gets.  supports() dereferences the       *)
(* domain descriptor first: without one it throws.                          *)

DescriptorPairs ==
    [domain : {"absent", "linear", "explicit"},     \* domain descriptor and its rule
     ruleParameters : BOOLEAN,                      \* a linear rule has parameters
     domainScalar : BOOLEAN,                        \* domain sample type is a scalar
     valueExplicit : BOOLEAN,                       \* value rule is explicit
     sample : {"scalar", "struct", "other"},        \* value sample type
     dimensions : BOOLEAN]                          \* value has custom dimensions

ScalarLinearSupports(d) ==
    d.domain = "linear" /\ d.valueExplicit /\ d.sample = "scalar" /\ ~d.dimensions

CanSupports(d) ==
    d.domain = "explicit" /\ d.valueExplicit /\ d.sample = "struct"

Supported(d) == ScalarLinearSupports(d) \/ CanSupports(d)

(* The constructor throws after it has allocated its ids.                   *)
ConstructorThrows(d) ==
    \/ ScalarLinearSupports(d) /\ ~d.ruleParameters
    \/ CanSupports(d) /\ ~d.domainScalar

ASSUME RecorderSignalsAssumption ==
    /\ Descriptors \subseteq DescriptorPairs
    /\ MaxPackets \in Nat

-----------------------------------------------------------------------------
RInit ==
    /\ Init
    /\ nextGroup = 2
    /\ handler = [s \in Signals |-> NoHandler]
    /\ lastDescriptor = [s \in Signals |-> NoDescriptor]
    /\ task = [s \in Signals |-> NoTask]
    /\ packets = [s \in Signals |-> 0]
    /\ declaredAs = [g \in Groups |-> NoDescriptor]

Free(s) == task[s].step = "none" /\ Idle(s)

Arrives(s) ==
    /\ ~closed
    /\ Free(s)
    /\ packets[s] < MaxPackets
    /\ packets' = [packets EXCEPT ![s] = @ + 1]

(* Mutant of AllocateGroup: the number is not taken.                         *)
PeekGroup == UNCHANGED nextGroup

(* basic_writer: allocate_group.                                            *)
AllocateGroup == nextGroup' = nextGroup + 1

(* Mutant of ResetHandler: the old handler stays.                           *)
KeepHandler(s) == UNCHANGED handler

ResetHandler(s) == handler' = [handler EXCEPT ![s] = NoHandler]

(* A packet with new descriptors, which may have the same features: the     *)
(* handler is reset, whatever follows, and the descriptors are remembered.  *)
(* A handler's constructor first allocates a group (a decoder and a channel *)
(* id with it).                                                             *)
NewDescriptor(s, d, usable) ==
    /\ Arrives(s)
    /\ lastDescriptor' = [lastDescriptor EXCEPT ![s] = d]
    /\ ResetHandler(s)
    /\ IF Supported(d)
       THEN /\ nextGroup \in Groups
            /\ AllocateGroup
            /\ task' = [task EXCEPT ![s] =
                           IF ConstructorThrows(d) THEN NoTask
                           ELSE [step |-> "declare", descriptor |-> d,
                                 usable |-> usable, group |-> nextGroup]]
       ELSE UNCHANGED <<nextGroup, task>>
    /\ UNCHANGED <<vars, declaredAs>>

(* A packet with the descriptors of the previous one.                       *)
SameDescriptor(s, usable) ==
    /\ Arrives(s)
    /\ lastDescriptor[s] # NoDescriptor
    /\ IF handler[s] # NoHandler /\ usable
       THEN task' = [task EXCEPT ![s] = [step |-> "record", descriptor |-> lastDescriptor[s],
                                         usable |-> TRUE, group |-> handler[s]]]
       ELSE UNCHANGED task
    /\ UNCHANGED <<vars, nextGroup, handler, lastDescriptor, declaredAs>>

(* The constructor calls write_metadata.                                    *)
Declare(s) ==
    /\ task[s].step = "declare"
    /\ \E p \in Payloads : Enter(s, METADATA, p, task[s].group)
    /\ task' = [task EXCEPT ![s].step = "declaring"]
    /\ declaredAs' = [declaredAs EXCEPT ![task[s].group] = task[s].descriptor]
    /\ UNCHANGED <<nextGroup, handler, lastDescriptor, packets>>

(* The constructor returns; the packet is then handed to the new handler.   *)
Declared(s) ==
    /\ task[s].step = "declaring"
    /\ pc[s] = "done"
    /\ Return(s)
    /\ handler' = [handler EXCEPT ![s] = task[s].group]
    /\ task' = [task EXCEPT ![s] = IF task[s].usable THEN [@ EXCEPT !.step = "record"] ELSE NoTask]
    /\ UNCHANGED <<nextGroup, lastDescriptor, packets, declaredAs>>

(* Mutant of DeclareFailed: the handler is used although it has no metadata. *)
DeclareAnyway(s) ==
    /\ task[s].step = "declaring"
    /\ pc[s] = "threw"
    /\ Return(s)
    /\ handler' = [handler EXCEPT ![s] = task[s].group]
    /\ task' = [task EXCEPT ![s] = NoTask]
    /\ UNCHANGED <<nextGroup, lastDescriptor, packets, declaredAs>>

(* write_metadata threw: the exception is caught, the handler reset, and    *)
(* the packet dropped.                                                      *)
DeclareFailed(s) ==
    /\ task[s].step = "declaring"
    /\ pc[s] = "threw"
    /\ Return(s)
    /\ ResetHandler(s)
    /\ task' = [task EXCEPT ![s] = NoTask]
    /\ UNCHANGED <<nextGroup, lastDescriptor, packets, declaredAs>>

(* The handler writes the packet as one block of its group.                 *)
Record(s) ==
    /\ task[s].step = "record"
    /\ \E p \in Payloads : Enter(s, task[s].group, p, METADATA)
    /\ task' = [task EXCEPT ![s].step = "recording"]
    /\ UNCHANGED <<nextGroup, handler, lastDescriptor, packets, declaredAs>>

(* write_block returns, or throws into the sender of the packet.            *)
Recorded(s) ==
    /\ task[s].step = "recording"
    /\ Return(s)
    /\ task' = [task EXCEPT ![s] = NoTask]
    /\ UNCHANGED <<nextGroup, handler, lastDescriptor, packets, declaredAs>>

InWriter(s) == WriterStep(s) /\ UNCHANGED signalVars

(* The last reference to the writer goes with the last signal.              *)
CloseFile ==
    /\ \A s \in Signals : Free(s)
    /\ Close
    /\ UNCHANGED signalVars

RNext ==
    \/ \E s \in Signals :
          \/ \E d \in Descriptors, usable \in BOOLEAN : NewDescriptor(s, d, usable)
          \/ \E usable \in BOOLEAN : SameDescriptor(s, usable)
          \/ Declare(s)
          \/ Declared(s)
          \/ DeclareFailed(s)
          \/ Record(s)
          \/ Recorded(s)
          \/ InWriter(s)
    \/ CloseFile

RSpec == RInit /\ [][RNext]_rvars

-----------------------------------------------------------------------------
(* Properties                                                              *)

MaybeDescriptors == DescriptorPairs \cup {NoDescriptor}
Steps == {"none", "declare", "declaring", "record", "recording"}

RTypeOK ==
    /\ nextGroup \in Nat
    /\ handler \in [Signals -> Groups]
    /\ lastDescriptor \in [Signals -> MaybeDescriptors]
    /\ task \in [Signals -> [step : Steps, descriptor : MaybeDescriptors,
                             usable : BOOLEAN, group : Groups]]
    /\ packets \in [Signals -> Nat]
    /\ declaredAs \in [Groups -> MaybeDescriptors]

(* A reader that goes through the file from the start meets the metadata of *)
(* a group before any data of that group, also when signals of several      *)
(* devices write concurrently and when writes fail half way.                *)
DeclaredBeforeData ==
    \A k \in DOMAIN file :
        file[k].group \notin {METADATA, INDEX} =>
            \E i \in 1..(k - 1) : file[i].declares = file[k].group

(* basic_writer.h, allocate_group: "has not yet been used in this SIE file  *)
(* and ... is not reserved".  No two declarations in the file and no two    *)
(* live handlers share a group, and none uses a reserved one (and every     *)
(* variable of the signals keeps its type).                                 *)
GroupsAreOwn ==
    /\ RTypeOK
    /\ \A i, k \in DOMAIN file :
          i # k /\ file[i].declares # METADATA => file[i].declares # file[k].declares
    /\ \A s, r \in Signals :
          s # r /\ handler[s] # NoHandler => handler[s] # handler[r]
    /\ \A s \in Signals :
          task[s].step # "none" => task[s].group \notin {METADATA, INDEX}

(* A data block is written under a group whose decoder was declared for the *)
(* descriptors of that very packet: a change of descriptors never lets old  *)
(* metadata describe new data.                                              *)
DataMatchesDeclaration ==
    \A s \in Signals :
        task[s].step = "recording" =>
            declaredAs[call[s].group] = lastDescriptor[s] \/ pc[s] \notin {"emplace", "write"}
=============================================================================
