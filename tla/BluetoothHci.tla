---------------------------- MODULE BluetoothHci ----------------------------
(***************************************************************************)
(* The Bluetooth HCI HAL (src/hals/bluetooth/bluetooth_hci.cc): one        *)
(* BluetoothHci object, served by the single binder thread of service.cc  *)
(* (configureRpcThreadpool(1, true)), so every HIDL call and every death  *)
(* notification runs to completion before the next.  Its clients are the *)
(* successive Bluetooth stack processes 1..NClients: each calls           *)
(* initialize once, then sends and closes, and may die at any point; the  *)
(* next one starts once its predecessor is gone.  A client's death is     *)
(* delivered to the HAL later, as a separate step (serviceDied).          *)
(*                                                                         *)
(* An HCI socket is named by the client whose initialize opened it, and   *)
(* so is the H4Protocol object that initialize allocates.                 *)
(***************************************************************************)
EXTENDS Integers

CONSTANT NClients

Clients == 1..NClients

\* nullptr, the descriptor value -1, and the value of a member the
\* constructor leaves uninitialised (no client's handle or socket).
Null == 0
NoFd == -1
Garbage == -2

VARIABLES
    halCb,        \* the client captured by unlink_cb_ (Null: empty std::function)
    hasDied,      \* death_recipient_->has_died_
    linked,       \* clients whose death is linked to death_recipient_
    handle,       \* hci_handle_
    h4Live,       \* H4Protocol objects allocated and not deleted
    socFd,        \* bt_soc_fd_
    open,         \* HCI sockets open in the HAL process
    bound,        \* HCI sockets bound to the user channel of the controller
    watched,      \* descriptors fd_watcher_ watches
    rfkillLive,   \* rfkill_state_ points to a string not yet freed
    rfkillLeaked, \* strings findRfKill allocated that can no longer be freed
    radio,        \* last state written to the rfkill switch
    cstate,       \* each client: idle, open, failed, closed or dead
    pending,      \* dead clients whose death the HAL has not yet handled
    crashed       \* the HAL process has crashed

vars == <<halCb, hasDied, linked, handle, h4Live, socFd, open, bound, watched,
          rfkillLive, rfkillLeaked, radio, cstate, pending, crashed>>

(***************************************************************************)
(* BluetoothHci(): only death_recipient_ is constructed; hci_handle_,     *)
(* bt_soc_fd_, rfkill_state_ and has_died_ hold whatever the memory held. *)
(***************************************************************************)
Init ==
    /\ halCb = Null
    /\ hasDied \in BOOLEAN
    /\ linked = {}
    /\ handle = Garbage
    /\ h4Live = {}
    /\ socFd = Garbage
    /\ open = {}
    /\ bound = {}
    /\ watched = {}
    /\ rfkillLive = FALSE
    /\ rfkillLeaked = 0
    /\ radio = "unknown"
    /\ cstate = [c \in Clients |-> "idle"]
    /\ pending = {}
    /\ crashed = FALSE

(***************************************************************************)
(* openBtHci's outcome for client c's call: socket() fails; waitHciDev    *)
(* finds no controller (the socket is closed, bt_soc_fd_ keeps it);       *)
(* bind() fails (always while another socket holds the user channel,      *)
(* EBUSY); or the socket is bound and returned.                           *)
(***************************************************************************)
ChannelBusy == bound \cap open # {}

OpenOutcomes ==
    {"socketFail", "noDevice", "bindFail"} \cup (IF ChannelBusy THEN {} ELSE {"ok"})

\* rfKill(block): findRfKill asprintf's the sysfs path into rfkill_state_,
\* dropping the string it pointed to, then the state is written.
RfKill(block) ==
    /\ rfkillLeaked' = rfkillLeaked + (IF rfkillLive THEN 1 ELSE 0)
    /\ radio' = IF block = 1 THEN "on" ELSE "off"

(***************************************************************************)
(* openBtHci for client c with the given outcome: rfkill_state_ := NULL   *)
(* (dropping a string not yet freed) and rfKill(1), then socket();        *)
(* bt_soc_fd_ is assigned once socket() succeeds and keeps the descriptor *)
(* when waitHciDev or bind fail and it is closed again.                   *)
(***************************************************************************)
OpenBtHci(c, outcome) ==
    /\ RfKill(1)
    /\ rfkillLive' = TRUE
    /\ socFd' = IF outcome = "socketFail" THEN socFd ELSE c
    /\ open' = IF outcome = "ok" THEN open \cup {c} ELSE open
    /\ bound' = IF outcome = "ok" THEN bound \cup {c} ELSE bound

(***************************************************************************)
(* initialize(cb): has_died_ := false, linkToDeath(cb), openBtHci, report *)
(* the status, allocate an H4Protocol on the returned descriptor (-1      *)
(* too), watch that descriptor, and capture cb in unlink_cb_.  The        *)
(* previous hci_handle_ is overwritten, not deleted.                       *)
(***************************************************************************)
Initialize(c) ==
    /\ cstate[c] = "idle"
    /\ \A j \in Clients : j < c => cstate[j] \in {"closed", "dead"}
    /\ \E outcome \in OpenOutcomes :
          LET hciFd == IF outcome = "ok" THEN c ELSE NoFd
          IN  /\ hasDied' = FALSE
              /\ linked' = linked \cup {c}
              /\ OpenBtHci(c, outcome)
              /\ cstate' = [cstate EXCEPT ![c] = IF outcome = "ok" THEN "open"
                                                 ELSE "failed"]
              /\ h4Live' = h4Live \cup {c}
              /\ handle' = c
              /\ watched' = watched \cup {hciFd}
              /\ halCb' = c
    /\ UNCHANGED <<pending, crashed>>

(***************************************************************************)
(* closeBtHci: close bt_soc_fd_ unless it is -1, block the radio with     *)
(* rfKill(0) and free rfkill_state_.  A bt_soc_fd_ never assigned is an   *)
(* uninitialised read: whatever descriptor it happens to name is closed.  *)
(***************************************************************************)
CloseBtHci ==
    /\ \E closed \in IF socFd = Garbage THEN open \cup {NoFd} ELSE {socFd} :
          /\ open' = open \ {closed}
          /\ bound' = bound \ {closed}
    /\ socFd' = NoFd
    /\ RfKill(0)
    /\ rfkillLive' = FALSE

(***************************************************************************)
(* close(), whichever way it is reached: unlink_cb_ unlinks its client    *)
(* unless has_died_ is set, the watcher stops, a non-null hci_handle_ is  *)
(* deleted, and closeBtHci runs.  died is has_died_ as the call finds it, *)
(* links the set of linked clients when close() starts.                   *)
(***************************************************************************)
CloseHal(died, links) ==
    /\ halCb # Null
    /\ linked' = IF died THEN links ELSE links \ {halCb}
    /\ watched' = {}
    /\ h4Live' = IF handle \in Clients THEN h4Live \ {handle} ELSE h4Live
    /\ handle' = IF handle \in Clients THEN Null ELSE handle
    /\ CloseBtHci
    /\ UNCHANGED <<halCb, crashed>>

\* The client calls close() after its initialize.
Close(c) ==
    /\ cstate[c] \in {"open", "failed"}
    /\ CloseHal(hasDied, linked)
    /\ cstate' = [cstate EXCEPT ![c] = "closed"]
    /\ UNCHANGED <<hasDied, pending>>

(***************************************************************************)
(* sendHciCommand, sendAclData, sendScoData: sendDataToController calls   *)
(* hci_handle_->Send.  A client sends only after a successful initialize. *)
(* With a live handle the write leaves the HAL's state as it is; a null   *)
(* hci_handle_ is dereferenced and the process crashes.                   *)
(***************************************************************************)
SendDataToController(c) ==
    /\ cstate[c] = "open"
    /\ handle \notin Clients
    /\ crashed' = TRUE
    /\ UNCHANGED <<halCb, hasDied, linked, handle, h4Live, socFd, open, bound,
                   watched, rfkillLive, rfkillLeaked, radio, cstate, pending>>

\* The client process exits or crashes; a linked death is queued.
ClientDies(c) ==
    /\ cstate[c] # "dead"
    /\ cstate' = [cstate EXCEPT ![c] = "dead"]
    /\ pending' = IF c \in linked THEN pending \cup {c} ELSE pending
    /\ UNCHANGED <<halCb, hasDied, linked, handle, h4Live, socFd, open, bound,
                   watched, rfkillLive, rfkillLeaked, radio, crashed>>

(***************************************************************************)
(* BluetoothDeathRecipient::serviceDied: has_died_ := true, then          *)
(* mHci->close() on whatever session the HAL holds now.  The binder       *)
(* driver drops the dead client's link.                                   *)
(***************************************************************************)
ServiceDied(c) ==
    /\ c \in pending
    /\ pending' = pending \ {c}
    /\ hasDied' = TRUE
    /\ CloseHal(TRUE, linked \ {c})
    /\ UNCHANGED cstate

\* A crash ends the process and with it every further step of this object.
Next ==
    /\ ~crashed
    /\ \E c \in Clients :
        \/ Initialize(c)
        \/ SendDataToController(c)
        \/ Close(c)
        \/ ClientDies(c)
        \/ ServiceDied(c)

Spec == Init /\ [][Next]_vars
=============================================================================
