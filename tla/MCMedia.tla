-------------------------------- MODULE MCMedia --------------------------------
(***************************************************************************)
(* An instance of Media: configurations that leave to the next one what it *)
(* does not want.                                                          *)
(***************************************************************************)
EXTENDS Media

Plain == [decoder |-> "hardware", color24 |-> FALSE, core1 |-> FALSE,
          network |-> "off", audio |-> "off", localaudio |-> TRUE,
          motion |-> FALSE, gyroCamera |-> FALSE]

SomeConfigs ==
  {[Plain EXCEPT !.color24 = TRUE, !.core1 = TRUE, !.network = "on"],
   [Plain EXCEPT !.decoder = "software", !.gyroCamera = TRUE],
   [Plain EXCEPT !.motion = TRUE, !.gyroCamera = TRUE],
   [Plain EXCEPT !.decoder = "off", !.localaudio = FALSE, !.audio = "auto"]}
=============================================================================
