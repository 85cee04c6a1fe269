------------------------- MODULE EndpointRegistration -------------------------
(***************************************************************************)
(* begin of the Pico endpoint: which object the interrupt handler of each  *)
(* of the two I2C instances calls, and whose registers that object reads.  *)
(***************************************************************************)
EXTENDS Integers

CONSTANT Objects    \* the endpoints of the program

ASSUME RegistrationAssumption == "nullptr" \notin Objects

VARIABLES
  endpoints,    \* endpoints_[i]
  instance,     \* instance_index_ of each object, 2 before begin
  enabled,      \* the interrupt of instance i is enabled
  pending       \* a condition of instance i is raised and not cleared

registrationVars == <<endpoints, instance, enabled, pending>>

Instances == 0 .. 1

NoInstance == 2

RegistrationInit ==
  /\ endpoints = [i \in Instances |-> "nullptr"]
  /\ instance = [o \in Objects |-> NoInstance]
  /\ enabled = [i \in Instances |-> FALSE]
  /\ pending = [i \in Instances |-> FALSE]

(* Mistakes that were easy to make here; none of them is part of the specification. *)

\* The last object to call begin takes the instance over.
Free_always(o, i) == TRUE

\* Both handlers call the object of the first instance.
Handler_copied(i) ==
  /\ enabled[i] /\ pending[i] /\ endpoints[0] # "nullptr"
  /\ pending' = [pending EXCEPT ![instance[endpoints[0]]] = FALSE]
  /\ UNCHANGED <<endpoints, instance, enabled>>

Free(o, i) == endpoints[i] \in {"nullptr", o}

\* begin of an object that was begun before, on this instance or the other, included.
begin(o, i) ==
  /\ Free(o, i)
  /\ endpoints' = [endpoints EXCEPT ![i] = o]
  /\ instance' = [instance EXCEPT ![o] = i]
  /\ enabled' = [enabled EXCEPT ![i] = TRUE]
  /\ UNCHANGED pending

\* The bus raises a condition of instance i.
Raise(i) ==
  /\ ~pending[i]
  /\ pending' = [pending EXCEPT ![i] = TRUE]
  /\ UNCHANGED <<endpoints, instance, enabled>>

\* The handler of instance i: handle_irq reads and clears the registers of instance_.
Handler(i) ==
  /\ enabled[i] /\ pending[i] /\ endpoints[i] # "nullptr"
  /\ pending' = [pending EXCEPT ![instance[endpoints[i]]] = FALSE]
  /\ UNCHANGED <<endpoints, instance, enabled>>

RegistrationNext ==
  \/ \E o \in Objects, i \in Instances : begin(o, i)
  \/ \E i \in Instances : Raise(i) \/ Handler(i)

\* The processor runs the handler of a pending, enabled interrupt.
RegistrationFairness == \A i \in Instances : WF_registrationVars(Handler(i))

RegistrationSpec ==
  RegistrationInit /\ [][RegistrationNext]_registrationVars /\ RegistrationFairness

-----------------------------------------------------------------------------

\* begin was called for the object of instance i on the other instance afterwards.
Moved(i) == endpoints[i] # "nullptr" /\ instance[endpoints[i]] # i

(***************************************************************************)
(* "One endpoint may be attached to each hardware I2C controller"          *)
(* (picomesh_pico_transport.h): an endpoint that begin has attached serves *)
(* the interrupts of its controller, however often begin was called and by *)
(* whom.  One that is begun on the other instance as well serves only that *)
(* one: both handlers then clear the same registers.                       *)
(***************************************************************************)
InterruptsServed ==
  \A i \in Instances : (enabled[i] /\ pending[i]) ~> (~pending[i] \/ Moved(i))

(***************************************************************************)
(* A begin that succeeded stays in force: the handler of the instance an   *)
(* object was begun on calls that object, whatever the others try.         *)
(***************************************************************************)
BeginStays ==
  \A o \in Objects : instance[o] # NoInstance => endpoints[instance[o]] = o
==============================================================================
