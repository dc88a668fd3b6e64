CONSTANTS
 fb_width = 2
 fb_height = 5
 Key <- MCKey
 Text <- MCText
 Descender = {"g"}
 VT_MAX_PARAMS = 2
 MaxParam = 26
 MaxTyped = 4
 MODE_TARGET_WIDTH <- MCTarget
 Mode = {0, 2, 5, 6}
 Point <- MCPoint
 Ink = {{}, {"red"}}
 can_flip = FALSE
 MaxSaved = 1
 MaxDrawn = 3
SPECIFICATION Spec
INVARIANTS TypeOK Shown LaidOut Marked LineTrue
