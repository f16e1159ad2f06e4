------------------------------ MODULE MCUsbCmd ------------------------------
(* UsbCmd for TLC, with a check that depends on every byte it covers.      *)
EXTENDS UsbCmd, FiniteSetsExt

MCCrc(bytes) == MapThenSumSet(LAMBDA i : i * bytes[i], DOMAIN bytes) % 2

=============================================================================
