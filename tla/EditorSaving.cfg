SPECIFICATION EditorSpec
CONSTANTS
    Texts = {"a", "b"}
    Prompts = {"p"}
    Kinds = {"save"}
    Limit = 2
    MaxRevision = 2
PROPERTY SavingKeepsEdits
