\* A launch, its end, a second launch and one more message.
CONSTANT Events = 4
SPECIFICATION GameSpec
INVARIANT PlayedGameOnly
PROPERTIES ExitedGameLeaves QueueEmptied LaunchTaken
CHECK_DEADLOCK FALSE
