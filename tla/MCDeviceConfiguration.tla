----------------------- MODULE MCDeviceConfiguration -----------------------
(* Instances of DeviceConfiguration for TLC. *)
EXTENDS DeviceConfiguration

TwoIds == {"", "clock"}
ThreeIds == {"", "clock", "environment"}
OneSetting == {0, 1}
============================================================================
