-------------------------------- MODULE MCGame --------------------------------
EXTENDS Game

MCBreakable == {"State", "SoundTestState", "WindowObj", "Text"}

MCStored == [fullScreen |-> FALSE, aspectRatio |-> 0, volume |-> 1]

\* Buttons that go down (and are held), and nothing else.
Press(buttons) == [Quiet EXCEPT !.pressed = buttons, !.held = buttons]

Click(entry, place) == [Quiet EXCEPT !.mouse = "press", !.over = entry, !.spot = place]

Common ==
    {Quiet, Press({"B"}), [Quiet EXCEPT !.mouse = "release", !.done = TRUE],
     [Quiet EXCEPT !.quit = TRUE]}

\* One player uses the mouse and the options, and one the buttons and the save test.
MCPlayers ==
    {Common \cup
        {Press({"A"}), Press({"A", "B"}), Press({"Right"}),
         [Quiet EXCEPT !.held = {"Left"}], [Quiet EXCEPT !.over = 3], [Quiet EXCEPT !.over = 2, !.spot = 1],
         Click(3, 1), Click(1, -1), Click(0, 2), [Quiet EXCEPT !.mouse = "LostFocus"]},
     Common \cup
        {Press({"A"}), Press({"Up"}), Press({"Down"}),
         [Press({"Up"}) EXCEPT !.memory = 2], [Press({"Down"}) EXCEPT !.opens = FALSE]}}
=============================================================================
