-------------------------------- MODULE Ble ---------------------------------
(***************************************************************************)
(* The BLE peripheral: src/src/tasks/ble_task.c.  All its callbacks run in    *)
(* the NimBLE host task, one at a time.                                      *)
(*                                                                         *)
(* The NimBLE host is external: it synchronizes with the controller, may     *)
(* lose it again (which breaks the connection and ends advertising before     *)
(* ble_on_reset() is called), and takes one central at a time because a       *)
(* connection ends advertising.  No frame is ever sent to a central: nothing  *)
(* calls data_process_send() with the BLE handle.                             *)
(***************************************************************************)
EXTENDS Integers

VARIABLES
    synced,          \* external: host and controller are in step
    advertising,     \* external: the device can be found
    central,         \* external: the connection; "gone" until its event is handled
    s_conn_handle,   \* it holds a handle (and not BLE_HS_CONN_HANDLE_NONE)
    rxFound,         \* s_char_rx_handle was found by ble_task_init()
    missed           \* history: the last attempt to advertise or to connect failed

bleVars == <<synced, advertising, central, s_conn_handle, rxFound, missed>>

BleTypeOK ==
    /\ synced \in BOOLEAN
    /\ advertising \in BOOLEAN
    /\ s_conn_handle \in BOOLEAN
    /\ rxFound \in BOOLEAN
    /\ missed \in BOOLEAN
    /\ central \in {"none", "connected", "gone"}

\* ble_task_init(): a characteristic that is not found is only logged.
BleInit ==
    /\ synced = FALSE
    /\ advertising = FALSE
    /\ central = "none"
    /\ s_conn_handle = FALSE
    /\ rxFound \in BOOLEAN
    /\ missed = FALSE

BleRestart ==
    /\ synced' = FALSE
    /\ advertising' = FALSE
    /\ central' = "none"
    /\ s_conn_handle' = FALSE
    /\ rxFound' \in BOOLEAN
    /\ missed' = FALSE

-----------------------------------------------------------------------------
(* Variants, one mistake each, that no specification uses. *)

\* Advertising again is left to the next synchronization.
DisconnectOnly ==
    /\ central = "gone"
    /\ central' = "none"
    /\ s_conn_handle' = FALSE
    /\ UNCHANGED <<synced, advertising, rxFound, missed>>

\* A failed attempt that leaves the handle of the attempt behind.
FailedConnectSetsHandle ==
    /\ advertising
    /\ advertising' = FALSE
    /\ s_conn_handle' = TRUE
    /\ missed' = TRUE
    /\ UNCHANGED <<synced, central, rxFound>>

-----------------------------------------------------------------------------
(* ble_on_sync(): ble_gap_adv_set_fields() or ble_gap_adv_start() may fail,   *)
(* and fail for certain without the controller; nothing tries again.         *)

ble_on_sync(reachable) ==
    /\ advertising' \in IF reachable THEN BOOLEAN ELSE {FALSE}
    /\ missed' = ~advertising'

Sync ==
    /\ ~synced
    /\ synced' = TRUE
    /\ ble_on_sync(TRUE)
    /\ UNCHANGED <<central, s_conn_handle, rxFound>>

\* The host has lost the controller: a connection is reported as disconnected,
\* which calls ble_on_sync() all the same.
HostReset ==
    /\ synced
    /\ synced' = FALSE
    /\ IF central = "none"
       THEN advertising' = FALSE /\ UNCHANGED <<central, s_conn_handle, missed>>
       ELSE central' = "none" /\ s_conn_handle' = FALSE /\ ble_on_sync(FALSE)
    /\ UNCHANGED rxFound

-----------------------------------------------------------------------------
(* ble_gap_event() *)

Connect ==
    /\ advertising
    /\ advertising' = FALSE
    /\ central' = "connected"
    /\ s_conn_handle' = TRUE
    /\ UNCHANGED <<synced, rxFound, missed>>

\* Advertising has ended, no connection has come of it, and the handler starts
\* nothing.
ConnectFails ==
    /\ advertising
    /\ advertising' = FALSE
    /\ s_conn_handle' = FALSE
    /\ missed' = TRUE
    /\ UNCHANGED <<synced, central, rxFound>>

CentralLeaves ==
    /\ central = "connected"
    /\ central' = "gone"
    /\ UNCHANGED <<synced, advertising, s_conn_handle, rxFound, missed>>

Disconnect ==
    /\ central = "gone"
    /\ central' = "none"
    /\ s_conn_handle' = FALSE
    /\ ble_on_sync(TRUE)
    /\ UNCHANGED <<synced, rxFound>>

-----------------------------------------------------------------------------
(* ble_gatt_svr_chr_access(): reads, writes to another characteristic and      *)
(* writes without memory for a copy change nothing.  Any other write ends the  *)
(* firmware: data_process_receive() calls ble_receive_callback(), which calls   *)
(* data_process_receive() with the same handle, until the stack is used up.    *)

WriteOverflowsStack == central = "connected" /\ rxFound

-----------------------------------------------------------------------------
BleNext == Sync \/ HostReset \/ Connect \/ ConnectFails \/ CentralLeaves \/ Disconnect

-----------------------------------------------------------------------------
(* Properties *)

\* The handle is held exactly as long as a connection is known, and the device is
\* not found by another central meanwhile.
HandleFollowsCentral ==
    /\ s_conn_handle <=> central # "none"
    /\ advertising => synced /\ central = "none"

\* A device with a running host that is neither connected nor to be found is so
\* because the last attempt to advertise or to connect has failed: a connection
\* that came and went never leaves it so.
SilentOnlyAfterFailure ==
    (synced /\ central = "none" /\ ~advertising) => missed

=============================================================================
