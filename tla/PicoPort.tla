------------------------------- MODULE PicoPort -------------------------------
(***************************************************************************)
(* The two parts of the Pico port side by side: what one endpoint does     *)
(* after its begin, and which endpoint an interrupt reaches.  They meet    *)
(* only in begin, so a behaviour is one of either part.                    *)
(***************************************************************************)
EXTENDS I2cPeripheralEndpoint, EndpointRegistration

VARIABLE part

portVars == <<vars, registrationVars, part>>

PortInit == Init /\ RegistrationInit /\ part \in {"transfer", "registration"}

PortNext ==
  \/ part = "transfer" /\ Next /\ UNCHANGED <<registrationVars, part>>
  \/ part = "registration" /\ RegistrationNext /\ UNCHANGED <<vars, part>>

PortSpec == PortInit /\ [][PortNext]_portVars /\ Fairness /\ RegistrationFairness
==============================================================================
