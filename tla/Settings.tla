-------------------------------- MODULE Settings --------------------------------
(***************************************************************************)
(* The settings of the stream: src/config.cpp, prompt_for_stream_settings  *)
(* and the start of stream() in src/n3ds_main.cpp, potato_resolve_profile  *)
(* and potato_apply_config of src/potato/potato_profile.cpp.               *)
(*                                                                         *)
(* The configuration is a function from the keys of the file to values, a  *)
(* file one from the keys that are in it.  The stream values (size, rate,  *)
(* bit rate, packet size) and the use of the second core each have an AUTO *)
(* flag; on an Old 3DS a stream value in AUTO follows the profile.  The SD *)
(* card, and with it the file, moves between Old and New consoles; the     *)
(* first file may be one of an older version, without profile and AUTO.    *)
(* Left out: the settings that are only copied to the file and back, and   *)
(* values out of their range.                                              *)
(***************************************************************************)
EXTENDS Integers, Sequences

CONSTANTS
  Edited,       (* keys with an AUTO flag that the player touches           *)
  Numbers,      (* the numbers he chooses from                              *)
  Decoders,     (* the decoders he chooses from                             *)
  Picks,        (* the profiles he chooses from                             *)
  TornAt,       (* lines a file may end after if it is not written whole    *)
  OldSets,      (* flags that are on in a file of an older version          *)
  OldStereo     (* values of stereoscopic_3d in a file of an older version  *)

StreamKeys == {"width", "height", "fps", "bitrate", "packetsize"}
CoreKeys == {"network_2nd_core", "audio_2nd_core"}
OldFlags == {"better_screen", "stable_stream", "ultra_potato"}
Profiles == {"default", "better", "smooth", "stable", "ultra"}

ASSUME SettingsAssumption ==
  /\ Edited \subseteq StreamKeys \cup CoreKeys /\ Numbers \subseteq Nat
  /\ Decoders \subseteq {"hardware", "software", "none"}
  /\ Picks \subseteq Profiles /\ OldStereo \subseteq BOOLEAN
  /\ TornAt \subseteq 0 .. 20 /\ OldSets \subseteq SUBSET OldFlags

(* The name of the AUTO flag of a key *)
AutoOf == [width |-> "auto_width", height |-> "auto_height", fps |-> "auto_fps",
           bitrate |-> "auto_bitrate", packetsize |-> "auto_packetsize",
           network_2nd_core |-> "auto_network_2nd_core",
           audio_2nd_core |-> "auto_audio_2nd_core"]

(* The keys in the order in which config_save writes them *)
WriteOrder ==
  <<"width", "height", "fps", "bitrate", "packetsize", "localaudio",
    "video_decoder", "potato_profile", "better_screen", "stable_stream",
    "ultra_potato", "stereoscopic_3d", "network_2nd_core",
    "auto_network_2nd_core", "audio_2nd_core", "auto_audio_2nd_core",
    "auto_width", "auto_height", "auto_fps", "auto_bitrate", "auto_packetsize">>
Fields == {WriteOrder[i] : i \in DOMAIN WriteOrder}

(* The configuration config_parse starts from *)
StreamDefaults ==
  [width |-> 800, height |-> 480, fps |-> 60, bitrate |-> -1, packetsize |-> 1392]
Defaults ==
  [f \in Fields |->
     IF f \in StreamKeys THEN StreamDefaults[f]
     ELSE CASE f = "video_decoder" -> "hardware"
            [] f = "potato_profile" -> "default"
            [] OTHER -> \E k \in DOMAIN AutoOf : f = AutoOf[k]]

VARIABLES
  place,    (* "off", "menus", "settings", "streaming"                      *)
  potato,   (* g_potato.is_potato: the console is an Old 3DS                *)
  config,   (* the configuration in memory                                  *)
  g,        (* what the stream takes from g_potato: its values, host_audio  *)
  writable, (* the directory of the program can be made on the card         *)
  main, legacy,  (* the two files                                           *)
  picked,   (* history: the profile the player picked                       *)
  chosen,   (* history: what he set by hand, and for how long               *)
  kept      (* history: both, as of the last save                           *)

vars == <<place, potato, config, g, writable, main, legacy, picked, chosen, kept>>

NoFile == [missing |-> TRUE]

(* What was set by hand, for the keys that were, and how long it stays: a  *)
(* value whose AUTO flag is turned off with it stays "always", a stream    *)
(* value set where there is no AUTO only while the card is "onNew"         *)
(* consoles, and it is "replaced" once an Old one has started from it.     *)
Nothing == <<>>
Entry(v, how) == [value |-> v, stays |-> how]
With(ch, k, v, how) ==
  [j \in DOMAIN ch \cup {k} |-> IF j = k THEN Entry(v, how) ELSE ch[j]]
Without(ch, k) == [j \in DOMAIN ch \ {k} |-> ch[j]]
ByHand(ch) == {k \in DOMAIN ch : ch[k].stays = "always"}
Replaced(ch) ==
  [k \in DOMAIN ch |->
     IF ch[k].stays = "onNew" THEN Entry(ch[k].value, "replaced") ELSE ch[k]]

(* What of it is in a file that was cut off: a stream value may have got   *)
(* to the card without its AUTO flag, which is then on again.              *)
Cut(ch, file) ==
  [k \in {j \in DOMAIN ch : \/ AutoOf[j] \in DOMAIN file
                            \/ j \in StreamKeys \cap DOMAIN file} |->
     IF AutoOf[k] \notin DOMAIN file /\ ch[k].stays = "always"
     THEN Entry(ch[k].value, "onNew") ELSE ch[k]]

-----------------------------------------------------------------------------
(* config_set_potato_profile *)
SetProfile_KeepsOld(c, p) ==
  [c EXCEPT !["potato_profile"] = p,
            !["better_screen"] = @ \/ p = "better",
            !["stable_stream"] = @ \/ p = "stable",
            !["ultra_potato"] = @ \/ p = "ultra"]
SetProfile(c, p) ==
  [c EXCEPT !["potato_profile"] = p, !["better_screen"] = (p = "better"),
            !["stable_stream"] = (p = "stable"),
            !["ultra_potato"] = (p = "ultra")]

ProfileFromOldFlags(c) ==
  CASE c["ultra_potato"] -> "ultra"
    [] ~c["ultra_potato"] /\ c["stable_stream"] -> "stable"
    [] ~c["ultra_potato"] /\ ~c["stable_stream"] /\ c["better_screen"] -> "better"
    [] OTHER -> "default"

(* The bit rate of a file that has none *)
DefaultBitrate(c) ==
  LET pixels == c["width"] * c["height"]
      at30 == CASE pixels <= 640 * 360 -> 1000
                [] pixels > 640 * 360 /\ pixels <= 854 * 480 -> 1500
                [] pixels > 854 * 480 /\ pixels <= 1366 * 768 -> 5000
                [] pixels > 1366 * 768 /\ pixels <= 1920 * 1200 -> 10000
                [] pixels > 1920 * 1200 /\ pixels <= 2560 * 1600 -> 20000
                [] OTHER -> 40000
  IN (at30 * c["fps"]) \div 30

(* config_parse of a file, or of none *)
Parse(file) ==
  LET c == [f \in Fields |-> IF f \in DOMAIN file THEN file[f] ELSE Defaults[f]]
      known == "potato_profile" \in DOMAIN file
      p == IF known THEN c["potato_profile"] ELSE ProfileFromOldFlags(c)
      d == SetProfile(c, p)
  IN IF d["bitrate"] = -1 THEN [d EXCEPT !["bitrate"] = DefaultBitrate(d)] ELSE d

(* The configuration of a program that has not read a file *)
Unread == Parse(NoFile)

(* config_file_parse *)
FileRead == IF main # NoFile THEN main ELSE legacy

(* potato_resolve_profile *)
Resolved(c) ==
  LET stereo == c["stereoscopic_3d"]
      ultra == c["ultra_potato"] /\ ~stereo
      better == c["better_screen"] /\ ~ultra /\ ~stereo
      smooth == c["potato_profile"] = "smooth" /\ ~better /\ ~ultra /\ ~stereo
      stable == c["stable_stream"] /\ ~ultra /\ ~stereo
  IN [width |-> IF stereo THEN 640 ELSE IF better THEN 400 ELSE 320,
      height |-> IF better THEN 240 ELSE 192,
      fps |-> CASE stereo \/ ultra -> 12 [] stable -> 15
                [] better /\ ~stable -> 15 [] smooth /\ ~stable -> 30
                [] OTHER -> 20,
      bitrate |-> CASE stereo -> 1200 [] ultra -> 750
                    [] stable -> (IF better THEN 1600 ELSE 1100)
                    [] better /\ ~stable -> 2200 [] smooth /\ ~stable -> 1600
                    [] OTHER -> 1500,
      packetsize |-> 1392]

(* potato_apply_config: the configuration, *)
Applied(c) ==
  IF ~potato' THEN c
  ELSE LET r == Resolved(c)
       IN [f \in Fields |-> CASE f \in StreamKeys /\ c[AutoOf[f]] -> r[f]
                              [] f = "video_decoder" -> "software"
                              [] OTHER -> c[f]]

(* and g_potato, which takes the values that are set by hand *)
Values(c) == [k \in StreamKeys |-> c[k]]
Cleared == [values |-> [k \in StreamKeys |-> 0], hostAudio |-> FALSE]
Apply(c) ==
  /\ config' = Applied(c)
  /\ IF potato' THEN g' = [values |-> Values(config'), hostAudio |-> c["localaudio"]]
     ELSE UNCHANGED g

NetworkEnabled(c) ==
  ~potato /\ (c["auto_network_2nd_core"] \/ c["network_2nd_core"])

AudioEnabled(c) ==
  /\ ~c["localaudio"]
  /\ IF c["auto_audio_2nd_core"] THEN potato /\ ~NetworkEnabled(c)
     ELSE c["audio_2nd_core"]

(* What the menu shows for a key *)
Shown(k) ==
  CASE k = "network_2nd_core" -> NetworkEnabled(config)
    [] k = "audio_2nd_core" -> AudioEnabled(config)
    [] OTHER -> config[k]

-----------------------------------------------------------------------------
(* The first file: none, or one an older version has left *)
OldKeys == StreamKeys \cup OldFlags \cup {"stereoscopic_3d"}
OldFile(flags, stereo) ==
  [f \in OldKeys |->
     IF f \in OldFlags THEN f \in flags
     ELSE IF f = "stereoscopic_3d" THEN stereo
     ELSE IF f = "bitrate" THEN 3000 ELSE Defaults[f]]
OldFiles == {OldFile(flags, stereo) : flags \in OldSets, stereo \in OldStereo}

(* The profile the older version used for its flags *)
OldChoice(file) ==
  IF file = NoFile THEN "default" ELSE ProfileFromOldFlags(file)

Init ==
  /\ place = "off" /\ potato = FALSE /\ writable \in BOOLEAN
  /\ config = Unread /\ g = Cleared
  /\ main = NoFile /\ legacy \in {NoFile} \cup OldFiles
  /\ picked = OldChoice(legacy) /\ chosen = Nothing
  /\ kept = [picked |-> picked, chosen |-> chosen]

(* main_loop: config_parse, potato_init, potato_apply_config; the card may *)
(* be in another console by now.                                           *)
Start ==
  /\ place = "off" /\ place' = "menus"
  /\ potato' \in BOOLEAN
  /\ Apply(Parse(FileRead))
  /\ chosen' = IF potato' THEN Replaced(chosen) ELSE chosen
  /\ UNCHANGED <<writable, main, legacy, picked, kept>>

(* What is in memory is gone. *)
Forget ==
  /\ place' = "off" /\ potato' = FALSE
  /\ config' = Unread /\ g' = Cleared
  /\ picked' = kept'.picked /\ chosen' = kept'.chosen

SwitchOff ==
  /\ place # "off"
  /\ kept' = kept /\ Forget
  /\ UNCHANGED <<writable, main, legacy>>

(* config_save, with the lines of a file that get to the card *)
Save_NoAuto(c) == [f \in Fields \ {"auto_fps"} |-> c[f]]
Save(c) == c

SaveFile(file) ==
  IF writable THEN main' = file /\ UNCHANGED legacy
              ELSE legacy' = file /\ UNCHANGED main

OpenSettings ==
  /\ place = "menus" /\ place' = "settings"
  /\ UNCHANGED <<potato, config, g, writable, main, legacy, picked, chosen, kept>>

CloseSettings ==
  /\ place = "settings" /\ place' = "menus"
  /\ SaveFile(Save(config))
  /\ kept' = [picked |-> picked, chosen |-> chosen]
  /\ UNCHANGED <<potato, config, g, writable, picked, chosen>>

(* The console is switched off in config_save: the file ends after n lines *)
TornSave ==
  /\ place = "settings"
  /\ \E n \in TornAt :
       LET file == [f \in {WriteOrder[i] : i \in 1 .. n} |-> config[f]]
           c == Parse(file)
       IN /\ SaveFile(file)
          /\ kept' = [picked |-> c["potato_profile"], chosen |-> Cut(chosen, file)]
  /\ Forget
  /\ UNCHANGED writable

(* auto_flag_for; the row of the audio is locked while the host plays it   *)
HasAuto(k) == k \in CoreKeys \/ potato
HasRow(k) == (k = "network_2nd_core" => ~potato)
Locked(k) == k = "audio_2nd_core" /\ config["localaudio"]

ToggleAuto(k) ==
  /\ place = "settings" /\ HasRow(k) /\ ~Locked(k) /\ HasAuto(k)
  /\ LET on == ~config[AutoOf[k]]
         c == IF k \in CoreKeys
              THEN [config EXCEPT ![k] = Shown(k), ![AutoOf[k]] = on]
              ELSE [config EXCEPT ![AutoOf[k]] = on]
     IN /\ potato' = potato
        /\ IF on /\ k \notin CoreKeys THEN Apply(c) ELSE config' = c /\ UNCHANGED g
        /\ chosen' = IF on THEN Without(chosen, k)
                     ELSE With(chosen, k, Shown(k), "always")
  /\ UNCHANGED <<place, writable, main, legacy, picked, kept>>

(* A value that the player confirms unchanged leaves AUTO on.  On a New    *)
(* 3DS the stream values have no AUTO.                                     *)
Options(k) == IF k \in CoreKeys THEN BOOLEAN ELSE Numbers

EditValue(k, v) ==
  /\ place = "settings" /\ HasRow(k) /\ ~Locked(k) /\ v # Shown(k)
  /\ config' = IF HasAuto(k) THEN [config EXCEPT ![k] = v, ![AutoOf[k]] = FALSE]
               ELSE [config EXCEPT ![k] = v]
  /\ chosen' = With(chosen, k, v,
                    IF HasAuto(k) \/ k \in ByHand(chosen) THEN "always" ELSE "onNew")
  /\ UNCHANGED <<place, potato, g, writable, main, legacy, picked, kept>>

PickProfile(p) ==
  /\ place = "settings" /\ potato
  /\ potato' = potato /\ Apply(SetProfile(config, p))
  /\ picked' = p
  /\ UNCHANGED <<place, writable, main, legacy, chosen, kept>>

PickDecoder(d) ==
  /\ place = "settings"
  /\ config' = [config EXCEPT !["video_decoder"] = d]
  /\ UNCHANGED <<place, potato, g, writable, main, legacy, picked, chosen, kept>>

SwitchHostAudio ==
  /\ place = "settings"
  /\ config' = [config EXCEPT !["localaudio"] = ~@]
  /\ UNCHANGED <<place, potato, g, writable, main, legacy, picked, chosen, kept>>

(* action_stream, which applies the configuration, and stream, which does  *)
(* so again                                                                *)
Stream ==
  /\ place = "menus" /\ place' = "streaming"
  /\ potato' = potato /\ Apply(config)
  /\ UNCHANGED <<writable, main, legacy, picked, chosen, kept>>

EndStream ==
  /\ place = "streaming" /\ place' = "menus"
  /\ UNCHANGED <<potato, config, g, writable, main, legacy, picked, chosen, kept>>

Edit == \E k \in Edited : ToggleAuto(k) \/ \E v \in Options(k) : EditValue(k, v)

Next ==
  \/ Start \/ SwitchOff \/ OpenSettings \/ CloseSettings \/ TornSave
  \/ Edit \/ SwitchHostAudio \/ Stream \/ EndStream
  \/ \E p \in Picks : PickProfile(p)
  \/ \E d \in Decoders : PickDecoder(d)

Spec == Init /\ [][Next]_vars

-----------------------------------------------------------------------------
(* The decoder stream() uses: on an Old 3DS the software one, whatever was *)
(* picked for another console.                                             *)
DecoderUsed ==
  CASE config["video_decoder"] = "hardware" -> IF potato THEN "potato" ELSE "mvd"
    [] config["video_decoder"] = "software" -> IF potato THEN "potato" ELSE "ffmpeg"
    [] OTHER -> "mock"

(* Types.                                                                  *)
TypeOK ==
  /\ place \in {"off", "menus", "settings", "streaming"}
  /\ {potato, writable} \subseteq BOOLEAN
  /\ DOMAIN config = Fields
  /\ \A k \in StreamKeys : config[k] \in Nat
  /\ \A k \in DOMAIN AutoOf : config[AutoOf[k]] \in BOOLEAN
  /\ config["potato_profile"] \in Profiles
  /\ g.values \in [StreamKeys -> Nat] /\ g.hostAudio \in BOOLEAN
  /\ \A file \in {main, legacy} : file = NoFile \/ DOMAIN file \subseteq Fields
  /\ writable \/ main = NoFile
  /\ picked \in Profiles

(* "AUTO off: value is yours to set": a value the player sets by hand, or   *)
(* keeps by leaving AUTO, stays as it is and out of AUTO through profiles,  *)
(* streams, restarts and other consoles until he changes it or returns to   *)
(* AUTO.  The exception are stream values set on a New 3DS, whose menu has  *)
(* no AUTO for them, and those whose AUTO flag a power loss kept from the   *)
(* card: they are in AUTO without showing it, stay in New consoles, and are *)
(* replaced by the profile's as soon as the card is in an Old one.          *)
ManualValuesLast ==
  place # "off" =>
    \A k \in DOMAIN chosen :
      /\ chosen[k].stays = "always" => ~config[AutoOf[k]]
      /\ chosen[k].stays # "replaced" => config[k] = chosen[k].value

(* What the menu says of the profiles *)
Promised ==
  [default |-> [width |-> 320, height |-> 192, fps |-> 20],
   better  |-> [width |-> 400, height |-> 240, fps |-> 15],
   smooth  |-> [width |-> 320, height |-> 192, fps |-> 30],
   stable  |-> [fps |-> 15],
   ultra   |-> [fps |-> 12]]

(* An Old 3DS streams what the menu promises of the profile that was picked *)
(* last, except for values out of AUTO, decodes in software, and the        *)
(* renderer is told the values the host is asked for.  The one exception is *)
(* stereoscopic 3D, on in a file of an older version: it takes precedence   *)
(* over the profile, and no menu turns it off any more.                     *)
StreamIsAsPromised ==
  place = "streaming" /\ potato =>
    /\ DecoderUsed = "potato"
    /\ g = [values |-> Values(config), hostAudio |-> config["localaudio"]]
    /\ \A k \in DOMAIN Promised[picked] :
         config["stereoscopic_3d"] \/
         config[k] = IF k \in ByHand(chosen) THEN chosen[k].value
                     ELSE Promised[picked][k]
=============================================================================
