------------------------------- MODULE MCImGroup -------------------------------
(* TLC instance of ImGroup: a complete installation; one whose rime addon  *)
(* does not load and whose users have FCITX_TS_IM set; the default build,  *)
(* without the keyboard addon; and one with neither keyboard nor pinyin.   *)
(* The profile is empty at first, or has pinyin in the inactive slot and   *)
(* no default, and a second group without pinyin.                          *)
EXTENDS ImGroup

CONSTANT Rime

MCPackages ==
    {[known |-> InputMethods, broken |-> {}, env |-> NoIM, active |-> TRUE,
      drops |-> FALSE],
     [known |-> InputMethods, broken |-> {Rime}, env |-> Pinyin,
      active |-> FALSE, drops |-> TRUE],
     [known |-> {Pinyin, Rime}, broken |-> {Rime}, env |-> NoIM,
      active |-> TRUE, drops |-> TRUE],
     [known |-> {Rime}, broken |-> {}, env |-> NoIM, active |-> TRUE,
      drops |-> FALSE]}

MCTexts ==
    {<<>>,
     <<[list |-> <<Pinyin, KeyboardUs>>, def |-> NoIM],
       [list |-> <<Rime>>, def |-> Rime]>>}
=============================================================================
