------------------------------ MODULE MapStore ------------------------------
(***************************************************************************)
(* What the host and a BPF program may rely on about map contents: the     *)
(* program's invocation is one transaction to the host, a value a helper   *)
(* replaces is replaced as a whole, an access touches one map, and nothing *)
(* but an access or a reboot changes a byte.                               *)
(***************************************************************************)
CONSTANTS
  Addresses,    \* of the backing store
  ByteValues,   \* what a byte can hold
  Zero,         \* the byte after boot
  Nothing       \* the page of a host that has just read nothing

VARIABLES
  content,      \* the bytes of the store
  touched,      \* the addresses written since the last restart
  regions,      \* the bytes of each map of the image in use
  inProgram,    \* a program runs
  page          \* what a read gave the host in the last step

storeVars == <<content, touched, regions, inProgram, page>>

Cleared == [a \in Addresses |-> Zero]

StoreInit ==
  /\ content = Cleared
  /\ touched = {}
  /\ inProgram = FALSE
  /\ page = Nothing

\* Some bytes of one map get new values.
ChangeOneMap ==
  \E region \in regions : \E part \in SUBSET region :
    /\ content' \in [Addresses -> ByteValues]
    /\ \A a \in Addresses \ part : content'[a] = content[a]
    /\ touched' = touched \cup part

HostRead ==
  /\ ~inProgram
  /\ \E region \in regions : \E part \in SUBSET region :
       page' = [a \in part |-> content[a]]
  /\ UNCHANGED <<content, touched, regions, inProgram>>

HostWrite ==
  /\ ~inProgram
  /\ ChangeOneMap
  /\ page' = Nothing
  /\ UNCHANGED <<regions, inProgram>>

ProgramWrite ==
  /\ inProgram
  /\ ChangeOneMap
  /\ page' = Nothing
  /\ UNCHANGED <<regions, inProgram>>

EnterOrLeave ==
  /\ inProgram' = ~inProgram
  /\ page' = Nothing
  /\ UNCHANGED <<content, touched, regions>>

\* An image is replaced or committed: its maps find the bytes as they are.
ChangeImage ==
  /\ ~inProgram
  /\ regions' \subseteq SUBSET Addresses
  /\ page' = Nothing
  /\ UNCHANGED <<content, touched, inProgram>>

\* Nothing of the host's or the program's.
Other == page' = Nothing /\ UNCHANGED <<content, touched, regions, inProgram>>

Restart ==
  /\ content' = Cleared
  /\ touched' = {}
  /\ inProgram' = FALSE
  /\ page' = Nothing
  /\ regions' \subseteq SUBSET Addresses

StoreNext ==
  \/ HostRead \/ HostWrite \/ ProgramWrite
  \/ EnterOrLeave \/ ChangeImage \/ Restart \/ Other

Spec == StoreInit /\ [][StoreNext]_storeVars
=============================================================================
