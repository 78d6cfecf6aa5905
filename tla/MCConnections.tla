--------------------------- MODULE MCConnections ---------------------------
(***************************************************************************)
(* Connections with two cards: ComfyUI has a required URL with a default,  *)
(* YouTube a refresh token.                                                *)
(***************************************************************************)
EXTENDS Connections

CONSTANTS t1, t2, comfyui, youtube, url, token, local, other

Threads == {t1, t2}
Settings == {"settings"}
Writes == [k \in Settings |-> [c \in Threads |-> {"write"}]]
Cards == {comfyui, youtube}
TwoKeys == {url, token}
CardOf == [k \in TwoKeys |-> IF k = url THEN comfyui ELSE youtube]
OnlyToken == {token}
OnlyUrl == {url}
TwoValues == {local, other}
LeftThere == {[k \in TwoKeys |-> other]}
=============================================================================
