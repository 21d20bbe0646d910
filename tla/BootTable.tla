----------------------------- MODULE BootTable -----------------------------
(***************************************************************************)
(* The table of boot states, boot_states[] of src/src/lib/hardwaremain.c,  *)
(* with what the run_state() function of each state may return.            *)
(***************************************************************************)
EXTENDS Integers

BS_PRE_DEVICE == 0
BS_DEV_INIT_CHIPS == 1
BS_DEV_ENUMERATE == 2
BS_DEV_RESOURCES == 3
BS_DEV_ENABLE == 4
BS_DEV_INIT == 5
BS_POST_DEVICE == 6
BS_OS_RESUME_CHECK == 7
BS_OS_RESUME == 8
BS_WRITE_TABLES == 9
BS_PAYLOAD_LOAD == 10
BS_PAYLOAD_BOOT == 11

boot_states ==
    [s \in BS_PRE_DEVICE..BS_PAYLOAD_BOOT |->
        CASE s = BS_OS_RESUME_CHECK -> {BS_OS_RESUME, BS_WRITE_TABLES}
          [] s = BS_OS_RESUME -> {}
          [] s = BS_PAYLOAD_BOOT -> {BS_PAYLOAD_BOOT}
          [] OTHER -> {s + 1}]

boot_ends == {BS_OS_RESUME, BS_PAYLOAD_BOOT}
=============================================================================
