----------------------------- MODULE RelayProofs -----------------------------
(***************************************************************************)
(* What holds of a stream worker for any number of sessions on its port.   *)
(***************************************************************************)
EXTENDS Relay, TLAPS

\* A leaf is tried with Zenon first, then with the SMT solver.
USE ZenonT(20), SMTT(30)

\* The variables of the worker and the sockets keep their types.
THEOREM TypeCorrect == Spec => []TypeOK
<1>1. Init => TypeOK
  BY DEF Init, TypeOK
<1>2. TypeOK /\ [Next]_vars => TypeOK'
  <2> SUFFICES ASSUME TypeOK, [Next]_vars PROVE TypeOK'
    OBVIOUS
  <2> USE DEF TypeOK, audioVars, netVars
  <2>1. ASSUME NEW s \in Session, AudioConnect(s) \/ AudioClose(s) PROVE TypeOK'
    BY <2>1 DEF AudioConnect, AudioClose, StreamOf
  <2>2. CASE AudioRequestOver
    BY <2>2 DEF AudioRequestOver, AudioEnd
  <2>3. ASSUME NEW s \in Session, EventConnect(s) \/ EventMessage(s) PROVE TypeOK'
    BY <2>3 DEF EventConnect, EventMessage, Forward
  <2>4. ASSUME NEW s \in Session, EventClose(s) PROVE TypeOK'
    BY <2>4 DEF EventClose, Ended
  <2>5. ASSUME NEW s \in Session, NetConnect(s) \/ NetEnd(s) PROVE TypeOK'
    <3>1. CASE NetConnect(s)
      <4>1. NET_SOCKET_TARGET' \in Session \cup {None} /\ lastNet' \in Session \cup {None}
        BY <3>1 DEF NetConnect, TargetOf
      <4>2. late' \subseteq Session /\ crossed' \subseteq Session
        BY <3>1 DEF NetConnect, Others
      <4> QED BY <3>1, <4>1, <4>2 DEF NetConnect
    <3>2. CASE NetEnd(s)
      <4>1. NET_SOCKET_TARGET' \in Session \cup {None} /\ robbedNet' \in BOOLEAN
        BY <3>2 DEF NetEnd, Cleared
      <4>2. crossed' \subseteq Session
        BY <3>2 DEF NetEnd, Others
      <4> QED BY <3>2, <4>1, <4>2 DEF NetEnd
    <3> QED BY <2>5, <3>1, <3>2
  <2>6. CASE UNCHANGED vars
    BY <2>6 DEF vars
  <2>7. ASSUME NEW s \in Session, AudioError(s) PROVE TypeOK'
    BY <2>7 DEF AudioError
  <2> QED BY <2>1, <2>2, <2>3, <2>4, <2>5, <2>6, <2>7 DEF Next
<1> QED BY <1>1, <1>2, PTL DEF Spec

-----------------------------------------------------------------------------
SoundInv == SoundToNewest /\ SilentWhenRobbed

\* Audio_stream is the newest client's or null, and null while that client is open
\* only when another close or an error has cleared it.
THEOREM SoundInvariant == Spec => []SoundInv
<1>1. Init => SoundInv
  BY DEF Init, SoundInv, SoundToNewest, SilentWhenRobbed
<1>2. TypeOK /\ SoundInv /\ [Next]_vars => SoundInv'
  <2> SUFFICES ASSUME TypeOK, SoundInv, [Next]_vars PROVE SoundInv'
    OBVIOUS
  <2> USE DEF SoundInv, SoundToNewest, SilentWhenRobbed
  <2>1. ASSUME NEW s \in Session, AudioConnect(s) PROVE SoundInv'
    BY <2>1, RelayAssumption DEF AudioConnect, StreamOf, TypeOK
  <2>2. ASSUME NEW s \in Session, AudioClose(s) PROVE SoundInv'
    BY <2>2 DEF AudioClose, TypeOK
  <2>3. CASE AudioRequestOver
    BY <2>3 DEF AudioRequestOver, AudioEnd
  <2>4. ASSUME UNCHANGED audioVars PROVE SoundInv'
    BY <2>4 DEF audioVars
  <2>5. ASSUME NEW s \in Session,
               \/ EventConnect(s) \/ EventMessage(s) \/ EventClose(s)
               \/ NetConnect(s) \/ NetEnd(s)
        PROVE  SoundInv'
    BY <2>4, <2>5 DEF EventConnect, EventMessage, EventClose, NetConnect, NetEnd
  <2>6. CASE UNCHANGED vars
    BY <2>4, <2>6 DEF vars, audioVars
  <2>7. ASSUME NEW s \in Session, AudioError(s) PROVE SoundInv'
    BY <2>7 DEF AudioError, TypeOK
  <2> QED BY <2>1, <2>2, <2>3, <2>5, <2>6, <2>7 DEF Next
<1> QED BY <1>1, <1>2, TypeCorrect, PTL DEF Spec

\* The worker never writes sound to a closed client or to one that a newer page
\* has replaced.
THEOREM SoundNewest == Spec => []SoundToNewest
<1>1. SoundInv => SoundToNewest
  BY DEF SoundInv
<1> QED BY <1>1, SoundInvariant, PTL

\* Only a foreign close or an error silences the newest page.
THEOREM SilentRobbed == Spec => []SilentWhenRobbed
<1>1. SoundInv => SilentWhenRobbed
  BY DEF SoundInv
<1> QED BY <1>1, SoundInvariant, PTL

-----------------------------------------------------------------------------
\* NET_SOCKET_TARGET is the newest QEMU or null; a QEMU that is not the target
\* has met another one on the port.
THEOREM TargetInvariant == Spec => []TargetInv
<1>1. Init => TargetInv
  BY DEF Init, TargetInv, InputToNewest, OrphanExplained
<1>2. TypeOK /\ TargetInv /\ [Next]_vars => TargetInv'
  <2> SUFFICES ASSUME TypeOK, TargetInv, [Next]_vars PROVE TargetInv'
    OBVIOUS
  <2> USE DEF TargetInv, InputToNewest, OrphanExplained
  <2>1. ASSUME NEW s \in Session, NetConnect(s) PROVE TargetInv'
    BY <2>1, RelayAssumption DEF NetConnect, TargetOf, Others, TypeOK
  <2>2. ASSUME NEW s \in Session, NetEnd(s) PROVE TargetInv'
    BY <2>2 DEF NetEnd, Cleared, Others, TypeOK
  <2>3. ASSUME NEW s \in Session, EventConnect(s) PROVE TargetInv'
    BY <2>3 DEF EventConnect, netVars, TypeOK
  <2>4. ASSUME NEW s \in Session, EventMessage(s) PROVE TargetInv'
    BY <2>4 DEF EventMessage, Forward, TypeOK
  <2>5. ASSUME NEW s \in Session, EventClose(s) PROVE TargetInv'
    BY SMTT(30), <2>5, RelayAssumption DEF EventClose, Ended, TypeOK
  <2>6. ASSUME UNCHANGED <<event, netVars>> PROVE TargetInv'
    BY <2>6 DEF netVars
  <2>7. ASSUME NEW s \in Session, AudioConnect(s) \/ AudioClose(s) PROVE TargetInv'
    BY <2>6, <2>7 DEF AudioConnect, AudioClose
  <2>8. CASE AudioRequestOver
    BY <2>6, <2>8 DEF AudioRequestOver
  <2>9. CASE UNCHANGED vars
    BY <2>6, <2>9 DEF vars, netVars
  <2>10. ASSUME NEW s \in Session, AudioError(s) PROVE TargetInv'
    BY <2>10 DEF AudioError, TypeOK
  <2> QED BY <2>1, <2>2, <2>3, <2>4, <2>5, <2>7, <2>8, <2>9, <2>10 DEF Next
<1> QED BY <1>1, <1>2, TypeCorrect, PTL DEF Spec

\* Input never reaches a QEMU that has gone or that a newer one has replaced.
THEOREM InputNewest == Spec => []InputToNewest
<1>1. TargetInv => InputToNewest
  BY DEF TargetInv
<1> QED BY <1>1, TargetInvariant, PTL

\* A QEMU that runs on without its page came late or met another one.
THEOREM OrphansExplained == Spec => []OrphanExplained
<1>1. TargetInv => OrphanExplained
  BY DEF TargetInv
<1> QED BY <1>1, TargetInvariant, PTL
=============================================================================
