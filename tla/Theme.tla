------------------------------- MODULE Theme -------------------------------
(***************************************************************************)
(* How the TUI picks its colours (falach-tui theme.rs): the ladder from    *)
(* environment, config.toml, --theme flag and user theme files to one      *)
(* palette, and the styles the palette gives to every signal on screen.    *)
(* A colour is abstracted to its kind: "rgb" (24 bit) or "ansi" (one of    *)
(* the 16 named ones).                                                     *)
(***************************************************************************)
EXTENDS Integers, Sequences, SequencesExt

CONSTANTS UserThemes,   \* the themes directory: a sequence of [name, readable, patch], sorted by name
          Unset         \* an absent option, flag or environment variable

ANSI == "ansi"
RGB == "rgb"

\* The names a patch may set; anything else is an unknown slot.
Slots == {"accent", "muted", "warn", "error", "good", "selection-bg", "selection-fg",
          "match-hl", "border", "border-focused", "tab-active", "tab-inactive",
          "hint-key", "hint-desc"}

BuiltinNames == <<"default-dark", "default-light", "accessible", "slate", "paper">>
IsBuiltin(name) == name \in ToSet(BuiltinNames)

\* A built-in: hand-picked palettes for both tiers; `accessible` has no colours.
Builtin(name) ==
  [name |-> name, monochrome |-> name = "accessible",
   truecolor |-> [slot \in Slots |-> RGB], color16 |-> [slot \in Slots |-> ANSI]]

\* A patch value: "#rrggbb", a colour name, or something that is neither.
ParseColor(value) == CASE value = "#rrggbb" -> RGB [] value = "red" -> ANSI [] OTHER -> Unset

\* The nearest of the 16 named colours.
ClampAnsi16(colour) == ANSI

\* The 16-colour slots after a patch: each named slot takes its colour's clamp.
PatchedColor16(def, patch) ==
  [slot \in Slots |->
     IF slot \in DOMAIN patch /\ ParseColor(patch[slot]) # Unset
     THEN ClampAnsi16(ParseColor(patch[slot])) ELSE def.color16[slot]]

PatchedTruecolor(def, patch) ==
  [slot \in Slots |->
     IF slot \in DOMAIN patch /\ ParseColor(patch[slot]) # Unset
     THEN ParseColor(patch[slot]) ELSE def.truecolor[slot]]

\* ThemePatch::apply: unknown slots and invalid colours are ignored.
ApplyPatch(def, patch) ==
  [def EXCEPT !.truecolor = PatchedTruecolor(def, patch),
              !.color16 = PatchedColor16(def, patch)]

Palette(tier, colors) == [tier |-> tier, colors |-> colors]

\* A concrete theme at a tier; a monochrome definition ignores the tier.
ThemeForTier(def, tier) ==
  [name |-> def.name,
   palette |-> IF def.monochrome THEN Palette("Monochrome", <<>>)
               ELSE Palette(tier, IF tier = "TrueColor" THEN def.truecolor ELSE def.color16)]

Accessible == [name |-> "accessible", palette |-> Palette("Monochrome", <<>>)]

-----------------------------------------------------------------------------
(* The environment of a process and the decisions it takes part in.        *)

ForcesMonochrome(env) ==
  env.theme_override = "accessible" \/ env.no_color \/ env.term = "dumb"

ColorTier(env) == IF env.colorterm \in {"truecolor", "24bit"} THEN "TrueColor" ELSE "Color16"

\* COLORFGBG names the background's ANSI index last; 7 and above read as light.
ColorfgbgIsLight(env) == env.colorfgbg # Unset /\ env.colorfgbg >= 7

WantsLight(env, mode) ==
  CASE mode = "light" -> TRUE
    [] mode = "dark" -> FALSE
    [] OTHER -> ColorfgbgIsLight(env)

ActiveLight(env, mode) == ~ForcesMonochrome(env) /\ WantsLight(env, mode)

UserTheme(name) == SelectSeq(UserThemes, LAMBDA u : u.name = name)

\* The definition a name stands for: a built-in, else a user file patched over
\* the built-in of the same brightness, else (or when the file is bad) default-dark.
DefOf(name, light) ==
  LET base == Builtin(IF light THEN "default-light" ELSE "default-dark") IN
  IF IsBuiltin(name) THEN Builtin(name)
  ELSE IF UserTheme(name) = <<>> \/ ~Head(UserTheme(name)).readable
  THEN Builtin("default-dark")
  ELSE [ApplyPatch(base, Head(UserTheme(name)).patch) EXCEPT !.name = name]

ChosenName(env, cfg, flag) ==
  IF flag # Unset THEN flag ELSE IF WantsLight(env, cfg.mode) THEN cfg.light ELSE cfg.dark

\* resolve_theme: the accessibility variables win over flag, config and files.
ResolveTheme(env, cfg, flag) ==
  IF ForcesMonochrome(env) THEN Accessible
  ELSE ThemeForTier(DefOf(ChosenName(env, cfg, flag), WantsLight(env, cfg.mode)), ColorTier(env))

\* The names the Settings row cycles through.
ThemeNames == BuiltinNames \o [i \in 1..Len(UserThemes) |-> UserThemes[i].name]

\* The name after `current`; an unknown one counts as the first.
NextTheme(current) ==
  LET found == {i \in 1..Len(ThemeNames) : ThemeNames[i] = current}
      idx == IF found = {} THEN 1 ELSE CHOOSE i \in found : \A j \in found : i <= j
  IN ThemeNames[(idx % Len(ThemeNames)) + 1]

-----------------------------------------------------------------------------
(* Styles: the modifier that carries a signal, and the slot that colours it. *)

\* The modifier each accessor adds on every palette.
Carrier ==
  [selected |-> "REVERSED", expired |-> "BOLD", modified |-> "BOLD", header |-> "BOLD",
   muted |-> "DIM", warning |-> "BOLD", error |-> "BOLD", good |-> "BOLD",
   match_hl |-> "BOLD", hint_key |-> "BOLD", hint_desc |-> Unset, border |-> "DIM",
   border_focused |-> "BOLD", tab_active |-> "BOLD", tab_inactive |-> "DIM"]

\* The slot that colours each signal; a header has none.
SlotOf ==
  [selected |-> "selection-bg", expired |-> "warn", modified |-> "accent", header |-> Unset,
   muted |-> "muted", warning |-> "warn", error |-> "error", good |-> "good",
   match_hl |-> "match-hl", hint_key |-> "hint-key", hint_desc |-> "hint-desc",
   border |-> "border", border_focused |-> "border-focused", tab_active |-> "tab-active",
   tab_inactive |-> "tab-inactive"]

\* The style of a signal: its carrier, and a colour where the palette has one.
StyleOf(theme, signal) ==
  [modifier |-> Carrier[signal],
   fg |-> IF theme.palette.tier = "Monochrome" \/ SlotOf[signal] = Unset THEN Unset
          ELSE theme.palette.colors[SlotOf[signal]]]

\* The style of text that carries no signal.
PlainStyle == [modifier |-> Unset, fg |-> Unset]

\* The pairs of styles a user must be able to tell apart.
Opposites == {<<"border", "border_focused">>, <<"tab_active", "tab_inactive">>,
              <<"selected", "muted">>, <<"selected", "expired">>, <<"muted", "match_hl">>}

\* Every signal of a theme has a carrier other than colour, and opposite
\* signals differ in it.
SignalsCarried(theme) ==
  /\ \A signal \in DOMAIN Carrier \ {"hint_desc"} :
       StyleOf(theme, signal).modifier # PlainStyle.modifier
  /\ \A p \in Opposites : StyleOf(theme, p[1]).modifier # StyleOf(theme, p[2]).modifier
=============================================================================
