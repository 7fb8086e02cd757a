SPECIFICATION Spec
CONSTANTS
    c1 = c1
    c2 = c2
    c3 = c3
    c4 = c4
    MAX_MODEL_ROUNDS = 3
    MAX_TOOL_CALLS_PER_RESPONSE = 2
    MAX_TOTAL_TOOL_CALLS = 3
    MAX_SINGLE_TOOL_RESULT_CHARS = 3
    MAX_ACCUMULATED_TOOL_RESULT_CHARS = 5
    MAX_INPUT_CHARS = 9
    PromptChars = 3
    CallChars = 1
    CallIds = {c1, c2, c3, c4}
    ResultSizes = {1, 3, 4}
    MAX_PROMPT_INPUT_CHARACTERS = 20000
    PROMPT_FRAMING_MANIFEST_CHARACTERS = 1000
    PROMPT_FINAL_SAFETY_MARGIN_CHARACTERS = 900
    MAX_GROUNDING_CONTEXT_CHARACTERS = 12000
    TRUNCATION_MARKER = 12
    Framing = 478
    Budget <- MCBudget
    Empty <- MCEmpty
    Frame <- MCFrame
    Label <- MCLabel
    Inputs <- MCInputs
    PLANNING_MAX_ATTEMPTS = 2
    Tokens = {1}
    None = None
INVARIANT
    LegalInputIsProjected
