--------------------------- MODULE MC_BluetoothHci ---------------------------
(***************************************************************************)
(* The HAL object serving successive Bluetooth stack processes.            *)
(***************************************************************************)
EXTENDS BluetoothHci

(***************************************************************************)
(* Every HCI socket the HAL holds open is the one bt_soc_fd_ names, so    *)
(* that the next close() releases it and the controller's user channel    *)
(* with it.  This is about openBtHci overwriting bt_soc_fd_ and about     *)
(* serviceDied closing whichever session is current when the death of an  *)
(* earlier client is handled.                                              *)
(***************************************************************************)
NoOrphanSocket == open \subseteq {socFd}
=============================================================================
