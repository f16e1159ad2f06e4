----------------------------- MODULE MCUsbTasks -----------------------------
(* UsbTasks for TLC: URLs of every length from none to one too long.       *)
EXTENDS UsbTasks

MCUrls == {<<>>, <<1>>, <<2, 2>>, <<1, 1, 1>>}

MCRequests ==
  [cmd : {"CONNECT_TO"}, url : MCUrls] \cup [cmd : {"RESET", "STATUS"}, url : {<<>>}]

=============================================================================
